---- MODULE Spec2Model ----
(***************************************************************************)
(* A model of the ytorrent bencode decoder: the tokenizer                  *)
(* (bencode/parser.rs), the lazy List/Dict cursors (bencode/object.rs)     *)
(* and the serde adapter (bencode/de.rs).                                  *)
(*                                                                         *)
(* A byte is a one-character string.  The input buffer `data` is a         *)
(* sequence of bytes; offsets are 0-based as in the Rust code, so the      *)
(* byte at offset p is data[p + 1].                                        *)
(***************************************************************************)
EXTENDS Integers, Sequences, FiniteSets, TLC

VARIABLES
    data,          \* BencodeParser::data, the input buffer
    plain,         \* the value the input was encoded from, if it was
    offset,        \* BencodeParser::offset
    peeked_token,  \* BencodeParser::peeked_token
    stack,         \* the live List/Dict cursors, innermost last
    last,          \* the last call and its result
    decoded        \* the target type and the result of from_bytes

vars == <<data, plain, offset, peeked_token, stack, last, decoded>>

(***************************************************************************)
(* Bounds of the model.                                                    *)
(***************************************************************************)
\* Longest input of the cursor specification, counted in encoded fragments.
MaxChunks == 5
\* Longest input of the tokenizer specification, counted in bytes.
MaxBytes == 4
\* Longest byte string encoded for the tokenizer, of every content.
MaxContent == 2
\* Longest byte string encoded for the tokenizer, of one repeated byte.
MaxLong == 11
\* Most pairs of the dictionaries among the inputs of the cursor specification.
MaxPairs == 3
\* Most items of the lists among the inputs of the adapter specification.
MaxItems == 3
\* Most entries of the dictionaries among the inputs of the adapter specification.
MaxEntries == 2

(***************************************************************************)
(* Bytes.                                                                  *)
(***************************************************************************)
Digits == {"0", "1", "2", "3", "4", "5", "6", "7", "8", "9"}

NonZeroDigits == Digits \ {"0"}

DigitVal(c) ==
    CASE c = "0" -> 0 [] c = "1" -> 1 [] c = "2" -> 2 [] c = "3" -> 3
      [] c = "4" -> 4 [] c = "5" -> 5 [] c = "6" -> 6 [] c = "7" -> 7
      [] c = "8" -> 8 [] c = "9" -> 9

\* data[from..to) with 0-based offsets, as a Rust slice expression.
Slice(d, from, to) == SubSeq(d, from + 1, to)

None == [kind |-> "None", span |-> <<>>]

NoErr == [kind |-> "NoErr", at |-> 0 - 1]

BencodeDecode(at) == [kind |-> "BencodeDecode", at |-> at]

SerdeCustom(at) == [kind |-> "SerdeCustom", at |-> at]

Token(kind, span) == [kind |-> kind, span |-> span]

(***************************************************************************)
(* parser.rs: take_int.  The four-state scanner, run from `cur` in state   *)
(* `state`; `start` is self.offset at the call.  The result carries the    *)
(* new offset (unchanged on failure), the span and the reported error.     *)
(***************************************************************************)
RECURSIVE TakeIntLoop(_, _, _, _, _)
TakeIntLoop(d, start, cur, state, term) ==
    IF cur >= Len(d)
    THEN [ok |-> FALSE, off |-> start, span |-> <<>>, err |-> BencodeDecode(cur)]
    ELSE LET c == d[cur + 1]
             fail == [ok |-> FALSE, off |-> start, span |-> <<>>,
                      err |-> BencodeDecode(cur)]
             done == [ok |-> TRUE, off |-> cur + 1, span |-> Slice(d, start, cur),
                      err |-> NoErr]
         IN CASE state = "Start" ->
                   IF c = "-" THEN TakeIntLoop(d, start, cur + 1, "Sign", term)
                   ELSE IF c = "0" THEN TakeIntLoop(d, start, cur + 1, "Zero", term)
                   ELSE IF c \in NonZeroDigits
                        THEN TakeIntLoop(d, start, cur + 1, "Digits", term)
                   ELSE fail
              [] state = "Zero" ->
                   IF c = term THEN done ELSE fail
              [] state = "Sign" ->
                   IF c \in NonZeroDigits
                   THEN TakeIntLoop(d, start, cur + 1, "Digits", term)
                   ELSE fail
              [] state = "Digits" ->
                   IF c \in Digits THEN TakeIntLoop(d, start, cur + 1, "Digits", term)
                   ELSE IF c = term THEN done
                   ELSE fail

\* A take_int without its Start state: the scan begins in Digits.
take_int_no_start(d, off, term) == TakeIntLoop(d, off, off, "Digits", term)

\* A take_int that reports the end of the input at the offset it started from.
take_int_eof_at_start(d, off, term) ==
    [TakeIntLoop(d, off, off, "Start", term) EXCEPT
        !.err = IF @.at = Len(d) THEN BencodeDecode(off) ELSE @]

take_int(d, off, term) == TakeIntLoop(d, off, off, "Start", term)

(***************************************************************************)
(* str::parse::<usize>() of a span take_int accepted: a signed span is     *)
(* refused, and so is a value above usize::MAX = 18446744073709551615.     *)
(* A value of more than 9 digits is above every buffer length of the       *)
(* model and is kept as 10^9.                                              *)
(***************************************************************************)
UsizeMaxDigits ==
    <<"1","8","4","4","6","7","4","4","0","7","3","7","0","9","5","5","1","6","1","5">>

RECURSIVE DigitsLeq(_, _)
DigitsLeq(a, b) ==
    IF a = <<>> THEN TRUE
    ELSE IF DigitVal(Head(a)) < DigitVal(Head(b)) THEN TRUE
    ELSE IF DigitVal(Head(a)) > DigitVal(Head(b)) THEN FALSE
    ELSE DigitsLeq(Tail(a), Tail(b))

RECURSIVE DecVal(_)
DecVal(s) ==
    IF s = <<>> THEN 0
    ELSE DecVal(SubSeq(s, 1, Len(s) - 1)) * 10 + DigitVal(s[Len(s)])

parse_usize(s) ==
    IF s = <<>> \/ Head(s) = "-" THEN [ok |-> FALSE, val |-> 0]
    ELSE IF Len(s) > Len(UsizeMaxDigits)
            \/ (Len(s) = Len(UsizeMaxDigits) /\ ~DigitsLeq(s, UsizeMaxDigits))
         THEN [ok |-> FALSE, val |-> 0]
    ELSE IF Len(s) > 9 THEN [ok |-> TRUE, val |-> 10^9]
    ELSE [ok |-> TRUE, val |-> DecVal(s)]

\* A take_chunk that refuses a chunk ending at the end of the buffer.
take_chunk_strict(d, off, count) ==
    IF off + count < Len(d)
    THEN [ok |-> TRUE, off |-> off + count, span |-> Slice(d, off, off + count)]
    ELSE [ok |-> FALSE, off |-> off, span |-> <<>>]

\* A take_chunk that gives the bytes that are left when count exceeds them.
take_chunk_clamped(d, off, count) ==
    IF off + count <= Len(d)
    THEN [ok |-> TRUE, off |-> off + count, span |-> Slice(d, off, off + count)]
    ELSE [ok |-> TRUE, off |-> Len(d), span |-> Slice(d, off, Len(d))]

\* parser.rs: take_chunk.
take_chunk(d, off, count) ==
    IF off + count <= Len(d)
    THEN [ok |-> TRUE, off |-> off + count, span |-> Slice(d, off, off + count)]
    ELSE [ok |-> FALSE, off |-> off, span |-> <<>>]

\* take_bytes after take_chunk (c); i is the take_int of the length.
take_bytes_chunk(i, c) ==
    IF c.ok THEN [ok |-> TRUE, off |-> c.off, span |-> c.span, err |-> NoErr]
    ELSE [ok |-> FALSE, off |-> i.off, span |-> <<>>, err |-> BencodeDecode(i.off)]

\* take_bytes after int_str.parse::<usize>() (n).
take_bytes_len(d, off, i, n) ==
    IF ~n.ok
    THEN [ok |-> FALSE, off |-> i.off, span |-> <<>>, err |-> BencodeDecode(off)]
    ELSE take_bytes_chunk(i, take_chunk(d, i.off, n.val))

\* take_bytes after take_int(':') (i).
take_bytes_int(d, off, i) ==
    IF ~i.ok THEN i ELSE take_bytes_len(d, off, i, parse_usize(i.span))

\* parser.rs: take_bytes.
take_bytes(d, off) == take_bytes_int(d, off, take_int(d, off, ":"))

\* The token of a scanned span: r is the result of take_int or take_bytes.
ScannedToken(kind, r) ==
    [ok |-> r.ok, off |-> r.off, err |-> r.err,
     tok |-> IF r.ok THEN Token(kind, r.span) ELSE None]

\* A next_raw_token that reads every byte it does not know as an End.
next_raw_token_unknown_is_end(d, off) ==
    IF off >= Len(d)
    THEN [ok |-> FALSE, off |-> off, tok |-> None, err |-> BencodeDecode(off)]
    ELSE CASE d[off + 1] = "l" ->
                [ok |-> TRUE, off |-> off + 1, tok |-> Token("List", <<>>), err |-> NoErr]
           [] d[off + 1] = "d" ->
                [ok |-> TRUE, off |-> off + 1, tok |-> Token("Dict", <<>>), err |-> NoErr]
           [] d[off + 1] = "i" -> ScannedToken("Num", take_int(d, off + 1, "e"))
           [] d[off + 1] \in Digits -> ScannedToken("String", take_bytes(d, off))
           [] OTHER ->
                [ok |-> TRUE, off |-> off + 1, tok |-> Token("End", <<>>), err |-> NoErr]

\* A next_raw_token whose take_byte moves forward at the end of the input too.
next_raw_token_past_end(d, off) ==
    IF off >= Len(d)
    THEN [ok |-> FALSE, off |-> off + 1, tok |-> None, err |-> BencodeDecode(off)]
    ELSE CASE d[off + 1] = "e" ->
                [ok |-> TRUE, off |-> off + 1, tok |-> Token("End", <<>>), err |-> NoErr]
           [] d[off + 1] = "l" ->
                [ok |-> TRUE, off |-> off + 1, tok |-> Token("List", <<>>), err |-> NoErr]
           [] d[off + 1] = "d" ->
                [ok |-> TRUE, off |-> off + 1, tok |-> Token("Dict", <<>>), err |-> NoErr]
           [] d[off + 1] = "i" -> ScannedToken("Num", take_int(d, off + 1, "e"))
           [] d[off + 1] \in Digits -> ScannedToken("String", take_bytes(d, off))
           [] OTHER ->
                [ok |-> FALSE, off |-> off + 1, tok |-> None,
                 err |-> BencodeDecode(off + 1)]

(***************************************************************************)
(* parser.rs: next_raw_token.  take_byte moves one byte forward, the       *)
(* control byte selects the token; a digit steps back one byte.            *)
(***************************************************************************)
next_raw_token(d, off) ==
    IF off >= Len(d)
    THEN [ok |-> FALSE, off |-> off, tok |-> None, err |-> BencodeDecode(off)]
    ELSE CASE d[off + 1] = "e" ->
                [ok |-> TRUE, off |-> off + 1, tok |-> Token("End", <<>>), err |-> NoErr]
           [] d[off + 1] = "l" ->
                [ok |-> TRUE, off |-> off + 1, tok |-> Token("List", <<>>), err |-> NoErr]
           [] d[off + 1] = "d" ->
                [ok |-> TRUE, off |-> off + 1, tok |-> Token("Dict", <<>>), err |-> NoErr]
           [] d[off + 1] = "i" -> ScannedToken("Num", take_int(d, off + 1, "e"))
           [] d[off + 1] \in Digits -> ScannedToken("String", take_bytes(d, off))
           [] OTHER ->
                [ok |-> FALSE, off |-> off + 1, tok |-> None,
                 err |-> BencodeDecode(off + 1)]

(***************************************************************************)
(* The tokenizer state is the pair (offset, peeked_token), written ps.     *)
(***************************************************************************)
PS(off, pk) == [offset |-> off, peeked |-> pk]

\* A peek_token that returns the token it scanned without caching it.
peek_scanned_uncached(r) ==
    [ok |-> r.ok, tok |-> r.tok, err |-> r.err, ps |-> PS(r.off, None)]

\* peek_token after next_raw_token (r): a token scanned is cached.
peek_scanned(r) ==
    [ok |-> r.ok, tok |-> r.tok, err |-> r.err,
     ps |-> PS(r.off, IF r.ok THEN r.tok ELSE None)]

\* parser.rs: peek_token.
peek_token(d, ps) ==
    IF ps.peeked # None
    THEN [ok |-> TRUE, tok |-> ps.peeked, err |-> NoErr, ps |-> ps]
    ELSE peek_scanned(next_raw_token(d, ps.offset))

\* next_token after next_raw_token (r): nothing is cached.
next_scanned(r) == [ok |-> r.ok, tok |-> r.tok, err |-> r.err, ps |-> PS(r.off, None)]

\* parser.rs: next_token.
next_token(d, ps) ==
    IF ps.peeked # None
    THEN [ok |-> TRUE, tok |-> ps.peeked, err |-> NoErr, ps |-> PS(ps.offset, None)]
    ELSE next_scanned(next_raw_token(d, ps.offset))

(***************************************************************************)
(* parser.rs: parse.  One token becomes one Object; a List or Dict token   *)
(* binds a new cursor whose start_point is the offset of its opening byte. *)
(* An object is [kind, span]; kind "None" is Ok(None).                     *)
(***************************************************************************)
Obj(kind, span) == [kind |-> kind, span |-> span]

IsCursor(obj) == obj.kind \in {"List", "Dict"}

\* parse: the match on the token next_token returned (r).
parse_token(r) ==
    IF ~r.ok THEN [ok |-> FALSE, obj |-> None, ps |-> r.ps, err |-> r.err]
    ELSE [ok |-> TRUE, ps |-> r.ps, err |-> NoErr,
          obj |-> CASE r.tok.kind = "List"   -> Obj("List", <<>>)
                    [] r.tok.kind = "Dict"   -> Obj("Dict", <<>>)
                    [] r.tok.kind = "Num"    -> Obj("Int", r.tok.span)
                    [] r.tok.kind = "String" -> Obj("Bytes", r.tok.span)
                    [] r.tok.kind = "End"    -> None]

parse(d, ps) == parse_token(next_token(d, ps))

(***************************************************************************)
(* object.rs: the cursors.  A cursor is [kind, finished, start_point];     *)
(* `pulls` counts the items or pairs it has returned (it is not a field of *)
(* the Rust struct, the properties read it).                               *)
(***************************************************************************)
\* object.rs: ListDecoder::new, DictDecoder::new.
NewCursor(kind, ps) ==
    [kind |-> kind, finished |-> FALSE, start_point |-> ps.offset - 1, pulls |-> 0]

NoKey == <<>>

Pulled(ok, obj, key, c, ps, err) ==
    [ok |-> ok, obj |-> obj, key |-> key, c |-> c, ps |-> ps, err |-> err]

\* next_object after `let item = self.parser.parse()`.
list_item(c, item) ==
    IF ~item.ok THEN Pulled(FALSE, None, NoKey, c, item.ps, item.err)
    ELSE IF item.obj = None
         THEN Pulled(TRUE, None, NoKey, [c EXCEPT !.finished = TRUE], item.ps, NoErr)
    ELSE Pulled(TRUE, item.obj, NoKey, [c EXCEPT !.pulls = @ + 1], item.ps, NoErr)

\* A next_object that pulls again after the list has finished.
list_next_object_unguarded(d, c, ps) == list_item(c, parse(d, ps))

\* object.rs: ListDecoder::next_object.
list_next_object(d, c, ps) ==
    IF c.finished THEN Pulled(TRUE, None, NoKey, c, ps, NoErr)
    ELSE list_item(c, parse(d, ps))

RECURSIVE list_consume_all(_, _, _)
RECURSIVE dict_consume_all(_, _, _)
RECURSIVE drop_object(_, _, _)
RECURSIVE dict_next_pair(_, _, _)

\* consume_all after one pull (r): stop on an error or on None, else drop
\* the item and pull again.
list_consume_step(d, r) ==
    IF ~r.ok THEN [ok |-> FALSE, c |-> r.c, ps |-> r.ps, err |-> r.err]
    ELSE IF r.obj = None THEN [ok |-> TRUE, c |-> r.c, ps |-> r.ps, err |-> NoErr]
    ELSE list_consume_all(d, r.c, drop_object(d, r.obj, r.ps))

\* object.rs: ListDecoder::consume_all.
list_consume_all(d, c, ps) == list_consume_step(d, list_next_object(d, c, ps))

dict_consume_step(d, r) ==
    IF ~r.ok THEN [ok |-> FALSE, c |-> r.c, ps |-> r.ps, err |-> r.err]
    ELSE IF r.obj = None THEN [ok |-> TRUE, c |-> r.c, ps |-> r.ps, err |-> NoErr]
    ELSE dict_consume_all(d, r.c, drop_object(d, r.obj, r.ps))

\* object.rs: DictDecoder::consume_all.
dict_consume_all(d, c, ps) == dict_consume_step(d, dict_next_pair(d, c, ps))

consume_all(d, c, ps) ==
    IF c.kind = "List" THEN list_consume_all(d, c, ps) ELSE dict_consume_all(d, c, ps)

\* A Drop that does not drain the cursor.
drop_cursor_no_drain(d, c, ps) == ps

\* object.rs: Drop for ListDecoder / DictDecoder: consume_all().ok().
drop_cursor(d, c, ps) == consume_all(d, c, ps).ps

\* Dropping an Object: a scalar holds nothing, a cursor runs its Drop.
drop_object(d, obj, ps) ==
    IF IsCursor(obj) THEN drop_cursor(d, NewCursor(obj.kind, ps), ps) ELSE ps

\* A next_pair that takes an End in value position for the end of the dictionary.
dict_value_end_of_dict(c, k, v) ==
    IF ~v.ok THEN Pulled(FALSE, None, NoKey, c, v.ps, v.err)
    ELSE IF v.obj = None
         THEN Pulled(TRUE, None, NoKey, [c EXCEPT !.finished = TRUE], v.ps, NoErr)
    ELSE Pulled(TRUE, v.obj, k.obj.span, [c EXCEPT !.pulls = @ + 1], v.ps, NoErr)

\* next_pair after the key k: `position` is the offset after the key, v is
\* the parse() of the value; Ok(None) there is the malformed-dictionary error.
dict_value(c, k, v) ==
    IF ~v.ok THEN Pulled(FALSE, None, NoKey, c, v.ps, v.err)
    ELSE IF v.obj = None
         THEN Pulled(FALSE, None, NoKey, c, v.ps, BencodeDecode(k.ps.offset))
    ELSE Pulled(TRUE, v.obj, k.obj.span, [c EXCEPT !.pulls = @ + 1], v.ps, NoErr)

(***************************************************************************)
(* next_pair after `self.parser.parse()?.and_then(Object::unwrap_bytes)`   *)
(* (k is the parse): Ok(None) and every object that is not Bytes give the  *)
(* key None (unwrap_bytes consumes the object, so a cursor in key position *)
(* is dropped there), and the key None sets finished.                      *)
(***************************************************************************)
dict_key(d, c, k) ==
    IF ~k.ok THEN Pulled(FALSE, None, NoKey, c, k.ps, k.err)
    ELSE IF k.obj.kind = "Bytes" THEN dict_value(c, k, parse(d, k.ps))
    ELSE Pulled(TRUE, None, NoKey, [c EXCEPT !.finished = TRUE],
                drop_object(d, k.obj, k.ps), NoErr)

\* object.rs: DictDecoder::next_pair.
dict_next_pair(d, c, ps) ==
    IF c.finished THEN Pulled(TRUE, None, NoKey, c, ps, NoErr)
    ELSE dict_key(d, c, parse(d, ps))

(***************************************************************************)
(* object.rs: TryFrom<ListDecoder> / TryFrom<DictDecoder> for &[u8].       *)
(* try_from takes the cursor by value, so the cursor is dropped when it    *)
(* returns: after a failed consume_all the Drop runs consume_all again.    *)
(***************************************************************************)
try_from_slice(d, c, r) ==
    [ok |-> r.ok, err |-> r.err,
     slice |-> IF r.ok THEN Slice(d, c.start_point, r.ps.offset) ELSE <<>>,
     ps |-> drop_cursor(d, r.c, r.ps)]

\* A conversion that slices up to the current offset without draining first.
try_from_no_consume(d, c, ps) ==
    [ok |-> TRUE, err |-> NoErr, slice |-> Slice(d, c.start_point, ps.offset),
     ps |-> drop_cursor(d, c, ps)]

try_from(d, c, ps) == try_from_slice(d, c, consume_all(d, c, ps))

(***************************************************************************)
(* de.rs: the serde adapter.  A decoded value is [t, s, items]: t is its   *)
(* kind, s its bytes (the decimal digits of an integer, the bytes of a     *)
(* string, the name of a variant), items its parts in the order the        *)
(* adapter handed them to the visitor.  The result of a decode is          *)
(* [ok, val, err, ps], ps being the parser after it.                       *)
(***************************************************************************)
Val(t, s, items) == [t |-> t, s |-> s, items |-> items]

NoVal == Val("None", <<>>, <<>>)

Decoded(ok, val, err, ps) == [ok |-> ok, val |-> val, err |-> err, ps |-> ps]

Fail(err, ps) == Decoded(FALSE, NoVal, err, ps)

\* An error serde's visitors make (invalid type, invalid length, unknown
\* variant): Error::custom, a SerdeCustom without a position.
VisitorError == SerdeCustom(0 - 1)

(***************************************************************************)
(* The target type of a decode, as the Deserialize implementation that     *)
(* drives the adapter: t is the kind, ty the integer type, sub the types   *)
(* of the parts, names and kinds the variants of an enum.                  *)
(***************************************************************************)
Shape(t, ty, sub) == [t |-> t, ty |-> ty, sub |-> sub, names |-> <<>>, kinds |-> <<>>]

AnyShape == Shape("Any", "", <<>>)

IntShape(ty) == Shape("Int", ty, <<>>)

StrShape == Shape("Str", "", <<>>)

BytesShape == Shape("Bytes", "", <<>>)

UnitShape == Shape("Unit", "", <<>>)

BoolShape == Shape("Bool", "", <<>>)

OptionShape(inner) == Shape("Option", "", <<inner>>)

SeqShape(elem) == Shape("Seq", "", <<elem>>)

TupleShape(elems) == Shape("Tuple", "", elems)

MapShape(k, v) == Shape("Map", "", <<k, v>>)

EnumShape(names, kinds, payloads) ==
    [t |-> "Enum", ty |-> "", sub |-> payloads, names |-> names, kinds |-> kinds]

(***************************************************************************)
(* str::parse for the integer types: an optional sign ('-' only for the    *)
(* signed types), at least one digit, and the value within the type's      *)
(* range.  The value is kept as its canonical decimal digits.              *)
(***************************************************************************)
Signed(ty) == ty \in {"i8", "i16", "i32", "i64"}

\* The digits of the largest value of the type.
MaxDigits(ty) ==
    CASE ty = "i8"  -> <<"1","2","7">>
      [] ty = "u8"  -> <<"2","5","5">>
      [] ty = "i16" -> <<"3","2","7","6","7">>
      [] ty = "u16" -> <<"6","5","5","3","5">>
      [] ty = "i32" -> <<"2","1","4","7","4","8","3","6","4","7">>
      [] ty = "u32" -> <<"4","2","9","4","9","6","7","2","9","5">>
      [] ty = "i64" ->
           <<"9","2","2","3","3","7","2","0","3","6","8","5","4","7","7","5","8","0","7">>
      [] ty = "u64" -> UsizeMaxDigits

\* The digits of the magnitude of the smallest value of a signed type.
MinDigits(ty) ==
    CASE ty = "i8"  -> <<"1","2","8">>
      [] ty = "i16" -> <<"3","2","7","6","8">>
      [] ty = "i32" -> <<"2","1","4","7","4","8","3","6","4","8">>
      [] ty = "i64" ->
           <<"9","2","2","3","3","7","2","0","3","6","8","5","4","7","7","5","8","0","8">>

RECURSIVE StripZeros(_)
StripZeros(s) == IF Len(s) > 1 /\ Head(s) = "0" THEN StripZeros(Tail(s)) ELSE s

\* A range check that refuses every magnitude as long as the bound.
Fits_shorter(mag, bound) == Len(mag) < Len(bound)

Fits(mag, bound) ==
    \/ Len(mag) < Len(bound)
    \/ Len(mag) = Len(bound) /\ DigitsLeq(mag, bound)

IntVal(neg, mag) ==
    Val("Int", IF neg /\ mag # <<"0">> THEN <<"-">> \o mag ELSE mag, <<>>)

\* The magnitude digits (leading zeros stripped) within the bound.
parse_magnitude(neg, mag, bound) ==
    IF Fits(mag, bound) THEN [ok |-> TRUE, val |-> IntVal(neg, mag)]
    ELSE [ok |-> FALSE, val |-> NoVal]

parse_digits(ty, neg, body) ==
    IF body = <<>> \/ \E i \in 1..Len(body) : body[i] \notin Digits
    THEN [ok |-> FALSE, val |-> NoVal]
    ELSE parse_magnitude(neg, StripZeros(body), IF neg THEN MinDigits(ty) ELSE MaxDigits(ty))

\* value.parse::<$int_type>()
parse_int(ty, s) ==
    IF s = <<>> THEN [ok |-> FALSE, val |-> NoVal]
    ELSE IF Head(s) = "-"
         THEN IF Signed(ty) THEN parse_digits(ty, TRUE, Tail(s))
              ELSE [ok |-> FALSE, val |-> NoVal]
    ELSE IF Head(s) = "+" THEN parse_digits(ty, FALSE, Tail(s))
    ELSE parse_digits(ty, FALSE, s)

\* The one byte of the model that is not ASCII: a lone 0xFF, never valid UTF-8.
InvalidUtf8Byte == "0xFF"

\* std::str::from_utf8 succeeds (every other byte of the model is ASCII).
from_utf8_ok(bytes) == \A i \in 1..Len(bytes) : bytes[i] # InvalidUtf8Byte

(***************************************************************************)
(* parser.rs: expect_dict_begin, expect_list_begin, expect_end,            *)
(* expect_empty_list.  `position` is the offset before next_token, which   *)
(* is past a token that was peeked.                                        *)
(***************************************************************************)
expect_checked(kind, position, r) ==
    IF ~r.ok THEN Fail(r.err, r.ps)
    ELSE IF r.tok.kind = kind THEN Decoded(TRUE, NoVal, NoErr, r.ps)
    ELSE Fail(SerdeCustom(position), r.ps)

expect_dict_begin(d, ps) == expect_checked("Dict", ps.offset, next_token(d, ps))

expect_list_begin(d, ps) == expect_checked("List", ps.offset, next_token(d, ps))

expect_end(d, ps) == expect_checked("End", ps.offset, next_token(d, ps))

expect_list_begun(d, b) == IF ~b.ok THEN b ELSE expect_end(d, b.ps)

expect_empty_list(d, ps) == expect_list_begun(d, expect_list_begin(d, ps))

(***************************************************************************)
(* de.rs: the macros deserialize_integer!, deserialize_string! and         *)
(* deserialize_bytes!.  r is the parse(); an object of another kind is     *)
(* dropped at the end of the match, a cursor draining itself there.        *)
(***************************************************************************)
integer_value(position, ps, n) ==
    IF n.ok THEN Decoded(TRUE, n.val, NoErr, ps) ELSE Fail(SerdeCustom(position), ps)

integer_parsed(ty, d, position, r) ==
    IF ~r.ok THEN Fail(r.err, r.ps)
    ELSE IF r.obj.kind = "Int" THEN integer_value(position, r.ps, parse_int(ty, r.obj.span))
    ELSE Fail(SerdeCustom(position), drop_object(d, r.obj, r.ps))

deserialize_integer(ty, d, ps) == integer_parsed(ty, d, ps.offset, parse(d, ps))

\* A deserialize_string! that does not validate UTF-8.
string_parsed_unchecked(d, position, r) ==
    IF ~r.ok THEN Fail(r.err, r.ps)
    ELSE IF r.obj.kind = "Bytes"
         THEN Decoded(TRUE, Val("Str", r.obj.span, <<>>), NoErr, r.ps)
    ELSE Fail(SerdeCustom(position), drop_object(d, r.obj, r.ps))

string_parsed(d, position, r) ==
    IF ~r.ok THEN Fail(r.err, r.ps)
    ELSE IF r.obj.kind = "Bytes"
         THEN IF from_utf8_ok(r.obj.span)
              THEN Decoded(TRUE, Val("Str", r.obj.span, <<>>), NoErr, r.ps)
              ELSE Fail(SerdeCustom(position), r.ps)
    ELSE Fail(SerdeCustom(position), drop_object(d, r.obj, r.ps))

deserialize_string(d, ps) == string_parsed(d, ps.offset, parse(d, ps))

\* A deserialize_bytes! that validates UTF-8 as deserialize_string! does.
bytes_parsed_utf8(d, position, r) ==
    IF ~r.ok THEN Fail(r.err, r.ps)
    ELSE IF r.obj.kind = "Bytes"
         THEN IF from_utf8_ok(r.obj.span)
              THEN Decoded(TRUE, Val("Bytes", r.obj.span, <<>>), NoErr, r.ps)
              ELSE Fail(SerdeCustom(position), r.ps)
    ELSE Fail(SerdeCustom(position), drop_object(d, r.obj, r.ps))

bytes_parsed(d, position, r) ==
    IF ~r.ok THEN Fail(r.err, r.ps)
    ELSE IF r.obj.kind = "Bytes"
         THEN Decoded(TRUE, Val("Bytes", r.obj.span, <<>>), NoErr, r.ps)
    ELSE Fail(SerdeCustom(position), drop_object(d, r.obj, r.ps))

deserialize_bytes(d, ps) == bytes_parsed(d, ps.offset, parse(d, ps))

(***************************************************************************)
(* de.rs: impl Deserializer for &mut BencodeParser.  deserialize(shape, .) *)
(* is T::deserialize for the target type T: it calls the deserialize_*     *)
(* method of the type, and the type's visitor takes what the method gives  *)
(* it or fails with a VisitorError.                                        *)
(***************************************************************************)
RECURSIVE deserialize(_, _, _)
RECURSIVE visit_seq(_, _, _, _, _)
RECURSIVE visit_map(_, _, _, _)

\* A decode followed by an expect_end whose failure is ignored.
value_ended_lenient(v, e) == Decoded(TRUE, v.val, NoErr, e.ps)

\* A decode (v) followed by expect_end.
value_ended(v, e) == IF e.ok THEN Decoded(TRUE, v.val, NoErr, e.ps) ELSE e

then_expect_end(d, v) == IF ~v.ok THEN v ELSE value_ended(v, expect_end(d, v.ps))

\* The type of the i-th element a sequence visitor asks for.
ElemShape(shape, i) ==
    CASE shape.t = "Tuple" -> shape.sub[i]
      [] shape.t = "Seq"   -> shape.sub[1]
      [] OTHER             -> AnyShape

\* The value a sequence visitor builds from the elements it was given.
SeqVal(shape, acc) == Val(IF shape.t = "Tuple" THEN "Tuple" ELSE "Seq", <<>>, acc)

\* A sequence visitor that puts each element before the ones it has.
seq_element_prepended(shape, i, d, acc, e) ==
    IF ~e.ok THEN e ELSE visit_seq(shape, i + 1, d, e.ps, <<e.val>> \o acc)

\* A sequence visitor that ends the sequence at an element that fails.
seq_element_partial(shape, i, d, acc, e) ==
    IF ~e.ok THEN Decoded(TRUE, SeqVal(shape, acc), NoErr, e.ps)
    ELSE visit_seq(shape, i + 1, d, e.ps, Append(acc, e.val))

seq_element(shape, i, d, acc, e) ==
    IF ~e.ok THEN e ELSE visit_seq(shape, i + 1, d, e.ps, Append(acc, e.val))

\* de.rs: SeqAccess::next_element_seed, r the peek_token: End is Ok(None),
\* on which a tuple visitor reports the missing element and the others finish.
next_element_seed(shape, i, d, acc, r) ==
    IF ~r.ok THEN Fail(r.err, r.ps)
    ELSE IF r.tok.kind = "End"
         THEN IF shape.t = "Tuple" THEN Fail(VisitorError, r.ps)
              ELSE Decoded(TRUE, SeqVal(shape, acc), NoErr, r.ps)
    ELSE seq_element(shape, i, d, acc, deserialize(ElemShape(shape, i), d, r.ps))

\* visitor.visit_seq(&mut *self): a tuple visitor asks for its elements and
\* no more, the others ask until Ok(None).
visit_seq(shape, i, d, ps, acc) ==
    IF shape.t = "Tuple" /\ i > Len(shape.sub)
    THEN Decoded(TRUE, SeqVal(shape, acc), NoErr, ps)
    ELSE next_element_seed(shape, i, d, acc, peek_token(d, ps))

seq_begun(shape, d, b) ==
    IF ~b.ok THEN b
    ELSE IF shape.t \notin {"Any", "Seq", "Tuple"} THEN Fail(VisitorError, b.ps)
    ELSE then_expect_end(d, visit_seq(shape, 1, d, b.ps, <<>>))

\* de.rs: deserialize_seq.
deserialize_seq(shape, d, ps) == seq_begun(shape, d, expect_list_begin(d, ps))

MapKeyShape(shape) == IF shape.t = "Map" THEN shape.sub[1] ELSE AnyShape

MapValueShape(shape) == IF shape.t = "Map" THEN shape.sub[2] ELSE AnyShape

Pair(k, v) == Val("Pair", <<>>, <<k, v>>)

\* A map visitor that puts each entry before the ones it already has.
map_entry_prepended(shape, d, acc, k, v) ==
    IF ~v.ok THEN v ELSE visit_map(shape, d, v.ps, <<Pair(k.val, v.val)>> \o acc)

\* A map visitor that leaves out an entry whose key it already has.
map_entry_first_wins(shape, d, acc, k, v) ==
    IF ~v.ok THEN v
    ELSE visit_map(shape, d, v.ps,
                   IF \E i \in 1..Len(acc) : acc[i].items[1] = k.val
                   THEN acc ELSE Append(acc, Pair(k.val, v.val)))

\* The entry of the key k and the value v joins the entries in hand.
map_entry(shape, d, acc, k, v) ==
    IF ~v.ok THEN v ELSE visit_map(shape, d, v.ps, Append(acc, Pair(k.val, v.val)))

\* de.rs: MapAccess::next_value_seed, after the key k.
next_value_seed(shape, d, acc, k) ==
    IF ~k.ok THEN k
    ELSE map_entry(shape, d, acc, k, deserialize(MapValueShape(shape), d, k.ps))

\* de.rs: MapAccess::next_key_seed, r the peek_token: End is Ok(None), every
\* other token is decoded as the key type decodes it.
next_key_seed(shape, d, acc, r) ==
    IF ~r.ok THEN Fail(r.err, r.ps)
    ELSE IF r.tok.kind = "End" THEN Decoded(TRUE, Val("Map", <<>>, acc), NoErr, r.ps)
    ELSE next_value_seed(shape, d, acc, deserialize(MapKeyShape(shape), d, r.ps))

\* visitor.visit_map(&mut *self): entries are asked for until Ok(None).
visit_map(shape, d, ps, acc) == next_key_seed(shape, d, acc, peek_token(d, ps))

map_begun(shape, d, b) ==
    IF ~b.ok THEN b
    ELSE IF shape.t \notin {"Any", "Map"} THEN Fail(VisitorError, b.ps)
    ELSE then_expect_end(d, visit_map(shape, d, b.ps, <<>>))

\* de.rs: deserialize_map.
deserialize_map(shape, d, ps) == map_begun(shape, d, expect_dict_begin(d, ps))

\* A scalar handed to the visitor of shape: only the generic visitor of the
\* shapes that come through deserialize_any takes it.
visit_scalar(shape, v) ==
    IF ~v.ok THEN v ELSE IF shape.t = "Any" THEN v ELSE Fail(VisitorError, v.ps)

\* A deserialize_any that consumes the token it dispatches on.
any_peeked_consuming(shape, d, cur_position, r) ==
    IF ~r.ok THEN Fail(r.err, r.ps)
    ELSE CASE r.tok.kind = "Dict"   -> deserialize_map(shape, d, PS(r.ps.offset, None))
           [] r.tok.kind = "List"   -> deserialize_seq(shape, d, PS(r.ps.offset, None))
           [] r.tok.kind = "Num"    ->
                visit_scalar(shape, deserialize_integer("i64", d, PS(r.ps.offset, None)))
           [] r.tok.kind = "String" ->
                visit_scalar(shape, deserialize_bytes(d, PS(r.ps.offset, None)))
           [] r.tok.kind = "End"    -> Fail(SerdeCustom(cur_position), r.ps)

\* A deserialize_any that takes an End for the unit value.
any_peeked_end_unit(shape, d, cur_position, r) ==
    IF ~r.ok THEN Fail(r.err, r.ps)
    ELSE CASE r.tok.kind = "Dict"   -> deserialize_map(shape, d, r.ps)
           [] r.tok.kind = "List"   -> deserialize_seq(shape, d, r.ps)
           [] r.tok.kind = "Num"    -> visit_scalar(shape, deserialize_integer("i64", d, r.ps))
           [] r.tok.kind = "String" -> visit_scalar(shape, deserialize_bytes(d, r.ps))
           [] r.tok.kind = "End"    ->
                Decoded(TRUE, Val("Unit", <<>>, <<>>), NoErr, next_token(d, r.ps).ps)

any_peeked(shape, d, cur_position, r) ==
    IF ~r.ok THEN Fail(r.err, r.ps)
    ELSE CASE r.tok.kind = "Dict"   -> deserialize_map(shape, d, r.ps)
           [] r.tok.kind = "List"   -> deserialize_seq(shape, d, r.ps)
           [] r.tok.kind = "Num"    -> visit_scalar(shape, deserialize_integer("i64", d, r.ps))
           [] r.tok.kind = "String" -> visit_scalar(shape, deserialize_bytes(d, r.ps))
           [] r.tok.kind = "End"    -> Fail(SerdeCustom(cur_position), r.ps)

\* de.rs: deserialize_any.
deserialize_any(shape, d, ps) == any_peeked(shape, d, ps.offset, peek_token(d, ps))

\* The index of the variant called name, 0 if the enum has none.
VariantIndex(shape, name) ==
    IF \E i \in 1..Len(shape.names) : shape.names[i] = name
    THEN CHOOSE i \in 1..Len(shape.names) : shape.names[i] = name
    ELSE 0

Variant(name, payload) == Val("Variant", name, payload)

variant_payload(name, v) ==
    IF ~v.ok THEN v ELSE Decoded(TRUE, Variant(name, <<v.val>>), NoErr, v.ps)

\* A newtype_variant_seed that leaves the End of the dict unread.
newtype_variant_seed_no_end(shape, d, ps) == deserialize(shape, d, ps)

\* de.rs: VariantAccess::newtype_variant_seed.
newtype_variant_seed(shape, d, ps) == then_expect_end(d, deserialize(shape, d, ps))

\* de.rs: VariantAccess::tuple_variant.
tuple_variant(shape, d, ps) == then_expect_end(d, deserialize_seq(shape, d, ps))

\* de.rs: VariantAccess::struct_variant.
struct_variant(shape, d, ps) == then_expect_end(d, deserialize_map(shape, d, ps))

\* The enum visitor after variant_seed gave it the variant i, called name.
variant_access(shape, i, name, d, ps) ==
    IF i = 0 THEN Fail(VisitorError, ps)
    ELSE CASE shape.kinds[i] = "unit" ->
                Decoded(TRUE, Variant(name, <<>>), NoErr, ps)
           [] shape.kinds[i] = "newtype" ->
                variant_payload(name, newtype_variant_seed(shape.sub[i], d, ps))
           [] shape.kinds[i] = "tuple" ->
                variant_payload(name, tuple_variant(shape.sub[i], d, ps))
           [] shape.kinds[i] = "struct" ->
                variant_payload(name, struct_variant(shape.sub[i], d, ps))

\* de.rs: EnumAccess::variant_seed, k the deserialize_identifier of the key.
variant_seed(shape, d, k) ==
    IF ~k.ok THEN k
    ELSE variant_access(shape, VariantIndex(shape, k.val.s), k.val.s, d, k.ps)

\* visit_enum(str.into_deserializer()): the name alone is a unit variant.
unit_only(shape, i, name, ps) ==
    IF i = 0 \/ shape.kinds[i] # "unit" THEN Fail(VisitorError, ps)
    ELSE Decoded(TRUE, Variant(name, <<>>), NoErr, ps)

\* deserialize_enum on Token::String, t the next_token that consumes it.
enum_string(shape, cur_position, t) ==
    IF ~from_utf8_ok(t.tok.span) THEN Fail(SerdeCustom(cur_position), t.ps)
    ELSE unit_only(shape, VariantIndex(shape, t.tok.span), t.tok.span, t.ps)

enum_dict(shape, d, b) ==
    IF ~b.ok THEN b ELSE variant_seed(shape, d, deserialize_string(d, b.ps))

\* A deserialize_enum that consumes the token it rejects.
enum_peeked_consuming(shape, d, cur_position, r) ==
    IF ~r.ok THEN Fail(r.err, r.ps)
    ELSE CASE r.tok.kind = "Dict"   -> enum_dict(shape, d, expect_dict_begin(d, r.ps))
           [] r.tok.kind = "String" -> enum_string(shape, cur_position, next_token(d, r.ps))
           [] OTHER -> Fail(SerdeCustom(cur_position), next_token(d, r.ps).ps)

enum_peeked(shape, d, cur_position, r) ==
    IF ~r.ok THEN Fail(r.err, r.ps)
    ELSE CASE r.tok.kind = "Dict"   -> enum_dict(shape, d, expect_dict_begin(d, r.ps))
           [] r.tok.kind = "String" -> enum_string(shape, cur_position, next_token(d, r.ps))
           [] OTHER                 -> Fail(SerdeCustom(cur_position), r.ps)

\* de.rs: deserialize_enum.
deserialize_enum(shape, d, ps) == enum_peeked(shape, d, ps.offset, peek_token(d, ps))

\* deserialize_bool after deserialize_integer!(self, i64, "bool") (n): the
\* value is positive when it has no sign and is not zero.
bool_visited(n) ==
    IF ~n.ok THEN n
    ELSE Decoded(TRUE,
                 Val("Bool", IF Head(n.val.s) # "-" /\ n.val.s # <<"0">>
                             THEN <<"true">> ELSE <<"false">>, <<>>),
                 NoErr, n.ps)

\* de.rs: deserialize_bool.
deserialize_bool(d, ps) == bool_visited(deserialize_integer("i64", d, ps))

\* An Option visitor that takes a failed inner decode for an absent value.
some_visited_lenient(v) ==
    IF ~v.ok THEN Decoded(TRUE, Val("Absent", <<>>, <<>>), NoErr, v.ps)
    ELSE Decoded(TRUE, Val("Some", <<>>, <<v.val>>), NoErr, v.ps)

\* visitor.visit_some(self): the inner decode (v), wrapped in Some.
some_visited(v) ==
    IF ~v.ok THEN v ELSE Decoded(TRUE, Val("Some", <<>>, <<v.val>>), NoErr, v.ps)

\* de.rs: deserialize_option.
deserialize_option(shape, d, ps) == some_visited(deserialize(shape.sub[1], d, ps))

unit_checked(e) == IF e.ok THEN Decoded(TRUE, Val("Unit", <<>>, <<>>), NoErr, e.ps) ELSE e

\* de.rs: deserialize_unit.
deserialize_unit(d, ps) == unit_checked(expect_empty_list(d, ps))

\* HashMap::insert of the entry e into the map m (a function from keys).
hash_map_insert(m, e) ==
    [k \in DOMAIN m \cup {e.items[1]} |-> IF k = e.items[1] THEN e.items[2] ELSE m[k]]

\* The HashMap a map visitor builds from the entries it is given, in order.
RECURSIVE hash_map(_)
hash_map(entries) ==
    IF entries = <<>> THEN <<>>
    ELSE hash_map_insert(hash_map(SubSeq(entries, 1, Len(entries) - 1)),
                         entries[Len(entries)])

\* T::deserialize(&mut parser) for the target type T.
deserialize(shape, d, ps) ==
    CASE shape.t = "Any"   -> deserialize_any(shape, d, ps)
      [] shape.t = "Int"   -> deserialize_integer(shape.ty, d, ps)
      [] shape.t = "Str"   -> deserialize_string(d, ps)
      [] shape.t = "Bytes" -> deserialize_bytes(d, ps)
      [] shape.t = "Unit"  -> deserialize_unit(d, ps)
      [] shape.t = "Bool"  -> deserialize_bool(d, ps)
      [] shape.t = "Option" -> deserialize_option(shape, d, ps)
      [] shape.t = "Seq"   -> deserialize_seq(shape, d, ps)
      [] shape.t = "Tuple" -> deserialize_any(shape, d, ps)
      [] shape.t = "Map"   -> deserialize_map(shape, d, ps)
      [] shape.t = "Enum"  -> deserialize_enum(shape, d, ps)

\* A from_bytes that fails when the value does not end the input.
from_bytes_to_end(shape, b) ==
    IF deserialize(shape, b, PS(0, None)).ok
       /\ deserialize(shape, b, PS(0, None)).ps.offset < Len(b)
    THEN Fail(SerdeCustom(deserialize(shape, b, PS(0, None)).ps.offset),
              deserialize(shape, b, PS(0, None)).ps)
    ELSE deserialize(shape, b, PS(0, None))

\* de.rs: from_bytes.
from_bytes(shape, b) == deserialize(shape, b, PS(0, None))

(***************************************************************************)
(* The target types of the model.                                          *)
(***************************************************************************)
\* HashMap<String, V> for a generic value V.
StrAnyMap == MapShape(StrShape, AnyShape)

\* HashMap<i64, i64>
IntIntMap == MapShape(IntShape("i64"), IntShape("i64"))

\* de.rs, tests: enum Enum { Unit, Int(i32), Str(String), Tuple((i8, i32)),
\* Struct(HashMap<String, (String, i64)>) }
Enum ==
    EnumShape(<< <<"U","n","i","t">>, <<"I","n","t">>, <<"S","t","r">>,
                 <<"T","u","p","l","e">>, <<"S","t","r","u","c","t">> >>,
              <<"unit", "newtype", "newtype", "newtype", "newtype">>,
              <<UnitShape, IntShape("i32"), StrShape,
                TupleShape(<<IntShape("i8"), IntShape("i32")>>),
                MapShape(StrShape, TupleShape(<<StrShape, IntShape("i64")>>))>>)

\* An enum with a tuple variant and a struct variant:
\* enum Kinds { Pair(i8, i32), Rec { .. } }, the fields of Rec read as a map.
Kinds ==
    EnumShape(<< <<"P","a","i","r">>, <<"R","e","c">> >>,
              <<"tuple", "struct">>,
              <<TupleShape(<<IntShape("i8"), IntShape("i32")>>),
                MapShape(StrShape, IntShape("i64"))>>)

Shapes == {AnyShape, StrAnyMap, IntIntMap, Enum, Kinds}

(***************************************************************************)
(* The encoder the tests pair the decoder with (serde_bencode::to_bytes):  *)
(* an integer is i<digits>e, a byte string <length>:<bytes>, a sequence    *)
(* l..e, a map d..e, a unit variant its name and every other variant the   *)
(* single-entry map from its name to its payload.                          *)
(***************************************************************************)
DigitChar(k) ==
    CASE k = 0 -> "0" [] k = 1 -> "1" [] k = 2 -> "2" [] k = 3 -> "3" [] k = 4 -> "4"
      [] k = 5 -> "5" [] k = 6 -> "6" [] k = 7 -> "7" [] k = 8 -> "8" [] k = 9 -> "9"

\* The decimal digits of n, without leading zeros.
RECURSIVE FormatDec(_)
FormatDec(n) ==
    IF n < 10 THEN <<DigitChar(n)>> ELSE Append(FormatDec(n \div 10), DigitChar(n % 10))

\* The encoding of the byte string b: length ':' bytes.
EncodeBytes(b) == FormatDec(Len(b)) \o <<":">> \o b

RECURSIVE Encode(_)
RECURSIVE EncodeAll(_)
EncodeAll(items) ==
    IF items = <<>> THEN <<>> ELSE Encode(Head(items)) \o EncodeAll(Tail(items))

Encode(v) ==
    CASE v.t = "Int"              -> <<"i">> \o v.s \o <<"e">>
      [] v.t \in {"Str", "Bytes"} -> EncodeBytes(v.s)
      [] v.t \in {"Seq", "Tuple"} -> <<"l">> \o EncodeAll(v.items) \o <<"e">>
      [] v.t = "Map"              -> <<"d">> \o EncodeAll(v.items) \o <<"e">>
      [] v.t = "Pair"             -> EncodeAll(v.items)
      [] v.t = "Variant" ->
           IF v.items = <<>> THEN EncodeBytes(v.s)
           ELSE <<"d">> \o EncodeBytes(v.s) \o EncodeAll(v.items) \o <<"e">>

IntV(s) == Val("Int", s, <<>>)

StrV(s) == Val("Str", s, <<>>)

BytesV(s) == Val("Bytes", s, <<>>)

TupleV(items) == Val("Tuple", <<>>, items)

MapV(entries) == Val("Map", <<>>, entries)

\* An entry of Enum::Struct: "key1" or "key2" to ("abc", 12).
StructEntry(c) ==
    Pair(StrV(<<"k", "e", "y", c>>), TupleV(<<StrV(<<"a", "b", "c">>), IntV(<<"1", "2">>)>>))

\* Values of the enum Enum of the tests, every variant among them.
EnumValues ==
    { Variant(Enum.names[1], <<>>) }
    \cup { Variant(Enum.names[2], <<IntV(n)>>) :
             n \in { <<"1", "3">>, <<"0">>, <<"-", "7">> } }
    \cup { Variant(Enum.names[3], <<StrV(s)>>) :
             s \in { <<"a", "b", "c">>, <<>>, <<"e">> } }
    \cup { Variant(Enum.names[4], <<TupleV(<<IntV(a), IntV(b)>>)>>) :
             a \in { <<"1">>, <<"-", "1", "2", "8">> }, b \in { <<"2">>, <<"-", "1">> } }
    \cup { Variant(Enum.names[5], <<MapV(es)>>) :
             es \in { <<>>, <<StructEntry("1")>>, <<StructEntry("1"), StructEntry("2")>> } }

\* Values of the enum Kinds.
KindsValues ==
    { Variant(Kinds.names[1], <<TupleV(<<IntV(<<"1">>), IntV(b)>>)>>) :
        b \in { <<"2">>, <<"-", "1">> } }
    \cup { Variant(Kinds.names[2], <<MapV(es)>>) :
             es \in { <<>>, <<Pair(StrV(<<"a">>), IntV(<<"1">>))>> } }

(***************************************************************************)
(* Inputs of the cursor specification: every concatenation of at most      *)
(* MaxChunks encoded fragments (well-formed or not), and the longer        *)
(* examples of the documentation.                                          *)
(***************************************************************************)
Chunks == { <<"d">>, <<"l">>, <<"e">>, <<"i", "1", "e">>, <<"1", ":", "a">> }

\* The sequences of S, and each of them with one more fragment of A.
Extend(S, A) == S \cup { s \o c : s \in S, c \in A }

RECURSIVE ChunkSeqs(_)
ChunkSeqs(n) == IF n = 0 THEN { <<>> } ELSE Extend(ChunkSeqs(n - 1), Chunks)

\* d4:key15:value4:key2i123ee (parser.rs, module documentation)
ExampleKeys ==
    <<"d", "4", ":", "k", "e", "y", "1", "5", ":", "v", "a", "l", "u", "e",
      "4", ":", "k", "e", "y", "2", "i", "1", "2", "3", "e", "e">>

\* d4:infod6:lengthi10eee
ExampleInfo ==
    <<"d", "4", ":", "i", "n", "f", "o", "d", "6", ":", "l", "e", "n", "g", "t", "h",
      "i", "1", "0", "e", "e", "e">>

\* ld1:ai1e1:bi2eei5ee: a two-element list whose first element is a dict
ExampleSibling ==
    <<"l", "d", "1", ":", "a", "i", "1", "e", "1", ":", "b", "i", "2", "e", "e",
      "i", "5", "e", "e">>

Examples == { ExampleKeys, ExampleInfo, ExampleSibling }

\* The bodies of the dictionaries of at most n pairs, keys in any order.
RECURSIVE PairSeqs(_)
PairSeqs(n) ==
    IF n = 0 THEN { <<>> }
    ELSE Extend(PairSeqs(n - 1),
                { k \o v : k \in { <<"1", ":", "a">>, <<"1", ":", "b">> },
                           v \in { <<"i", "1", "e">>, <<"1", ":", "a">>,
                                   <<"l", "e">>, <<"d", "e">> } })

DictInputs == { <<"d">> \o b \o <<"e">> : b \in PairSeqs(MaxPairs) }

Inputs == ChunkSeqs(MaxChunks) \cup DictInputs \cup Examples

(***************************************************************************)
(* The cursor API as a state machine.  `stack` holds the live cursors, the *)
(* innermost last: the borrow of the parser makes the innermost cursor the *)
(* only one that can be used.  `last` records the last call and its result.*)
(***************************************************************************)
Last(op, ok, obj, key, err, c, pre, slice) ==
    [op |-> op, ok |-> ok, kind |-> obj.kind, span |-> obj.span, key |-> key,
     err |-> err, start |-> c.start_point, pulls |-> c.pulls, fin |-> c.finished,
     ckind |-> c.kind, pre |-> pre, slice |-> slice, hit |-> peeked_token # None,
     pop |-> last.op, ppulls |-> last.pulls, pfin |-> last.fin, pstart |-> last.start]

NoCursor == [kind |-> "None", finished |-> FALSE, start_point |-> 0 - 1, pulls |-> 0]

Top == stack[Len(stack)]

Pop == SubSeq(stack, 1, Len(stack) - 1)

NoPlain == [some |-> FALSE, value |-> NoVal]

Plain(v) == [some |-> TRUE, value |-> v]

NotDecoded == [shape |-> UnitShape, r |-> Fail(NoErr, PS(0, None))]

\* The parser BencodeParser::new returns; nothing was called on it yet.
New ==
    /\ offset = 0
    /\ peeked_token = None
    /\ stack = <<>>
    /\ last = [op |-> "new", ok |-> TRUE, kind |-> "None", span |-> <<>>, key |-> NoKey,
               err |-> NoErr, start |-> 0 - 1, pulls |-> 0, fin |-> FALSE,
               ckind |-> "None", pre |-> 0, slice |-> <<>>, hit |-> FALSE,
               pop |-> "new", ppulls |-> 0, pfin |-> FALSE, pstart |-> 0 - 1]
    /\ decoded = NotDecoded

Init ==
    /\ \/ /\ data \in Inputs
          /\ plain = NoPlain
       \/ \E v \in EnumValues \cup KindsValues :
             /\ data = Encode(v)
             /\ plain = Plain(v)
    /\ New

\* from_bytes decodes with a parser of its own and leaves the caller's parser
\* and cursors as they are; a behaviour of the model ends with it.
Live == last.op # "from_bytes"

\* The state after parser.parse() returned r.
ParseStep(r) ==
    /\ offset' = r.ps.offset
    /\ peeked_token' = r.ps.peeked
    /\ stack' = IF r.ok /\ IsCursor(r.obj)
                THEN <<NewCursor(r.obj.kind, r.ps)>> ELSE <<>>
    /\ last' = Last("parse", r.ok, r.obj, NoKey, r.err, NoCursor, offset, <<>>)
    /\ UNCHANGED <<data, plain, decoded>>

\* BencodeParser::parse called by the owner of the parser.
Parse ==
    /\ Live
    /\ stack = <<>>
    /\ ParseStep(parse(data, PS(offset, peeked_token)))

\* A pull that leaves the cursor it returns under the cursor that was pulled,
\* as if the parent could be used while its child is alive.
PullStep_parent_on_top(op, r) ==
    /\ offset' = r.ps.offset
    /\ peeked_token' = r.ps.peeked
    /\ stack' = IF r.ok /\ IsCursor(r.obj)
                THEN Append(Append(Pop, NewCursor(r.obj.kind, r.ps)), r.c)
                ELSE Append(Pop, r.c)
    /\ last' = Last(op, r.ok, r.obj, r.key, r.err, Top, offset, <<>>)
    /\ UNCHANGED <<data, plain, decoded>>

\* The state after a pull on the innermost cursor returned r: the cursor is
\* updated in place and a List or Dict result becomes the innermost cursor.
PullStep(op, r) ==
    /\ offset' = r.ps.offset
    /\ peeked_token' = r.ps.peeked
    /\ stack' = IF r.ok /\ IsCursor(r.obj)
                THEN Append(Append(Pop, r.c), NewCursor(r.obj.kind, r.ps))
                ELSE Append(Pop, r.c)
    /\ last' = Last(op, r.ok, r.obj, r.key, r.err, Top, offset, <<>>)
    /\ UNCHANGED <<data, plain, decoded>>

NextObject ==
    /\ Live
    /\ stack # <<>>
    /\ Top.kind = "List"
    /\ PullStep("next_object", list_next_object(data, Top, PS(offset, peeked_token)))

NextPair ==
    /\ Live
    /\ stack # <<>>
    /\ Top.kind = "Dict"
    /\ PullStep("next_pair", dict_next_pair(data, Top, PS(offset, peeked_token)))

\* The state after the innermost cursor was dropped, the parser left at ps.
DropStep(ps) ==
    /\ offset' = ps.offset
    /\ peeked_token' = ps.peeked
    /\ stack' = Pop
    /\ last' = Last("drop", TRUE, None, NoKey, NoErr, Top, offset, <<>>)
    /\ UNCHANGED <<data, plain, decoded>>

\* The innermost cursor goes out of scope.
Drop ==
    /\ Live
    /\ stack # <<>>
    /\ DropStep(drop_cursor(data, Top, PS(offset, peeked_token)))

\* The state after the conversion of the innermost cursor returned r.
TryFromStep(r) ==
    /\ offset' = r.ps.offset
    /\ peeked_token' = r.ps.peeked
    /\ stack' = Pop
    /\ last' = Last("try_from", r.ok, None, NoKey, r.err, Top, offset, r.slice)
    /\ UNCHANGED <<data, plain, decoded>>

\* The innermost cursor is converted into its raw bytes.
TryFrom ==
    /\ Live
    /\ stack # <<>>
    /\ TryFromStep(try_from(data, Top, PS(offset, peeked_token)))

\* The state after from_bytes::<T>(b) returned r, T the type of shape.
FromBytesStep(shape, b, r) ==
    /\ decoded' = [shape |-> shape, r |-> r]
    /\ last' = Last("from_bytes", r.ok, None, NoKey, r.err, NoCursor, 0, b)
    /\ UNCHANGED <<data, plain, offset, peeked_token, stack>>

\* from_bytes on the input, or on the raw bytes a conversion just gave.
FromBytes ==
    \E shape \in Shapes :
        \/ /\ last.op = "new"
           /\ FromBytesStep(shape, data, from_bytes(shape, data))
        \/ /\ last.op = "try_from" /\ last.ok
           /\ FromBytesStep(shape, last.slice, from_bytes(shape, last.slice))

Next == Parse \/ NextObject \/ NextPair \/ Drop \/ TryFrom \/ FromBytes

Spec == Init /\ [][Next]_vars

(***************************************************************************)
(* The drain of Drop, one turn of the loop of consume_all at a time.  The  *)
(* cursors of `stack` are the ones whose Drop is running or still to run,  *)
(* the innermost first: a List or Dict a pull returns is dropped at once,  *)
(* so that its own drain runs before the next turn of the loop; a pull     *)
(* that fails or returns None ends the drain of its cursor, the error      *)
(* being discarded by `.ok()`.                                             *)
(***************************************************************************)
MaxDrain == 4

DrainInputs == ChunkSeqs(MaxDrain) \cup Examples

InitDrain ==
    /\ data \in DrainInputs
    /\ plain = NoPlain
    /\ New

\* consume_all: the pull of one turn of `while self.next_object()?.is_some()`.
drain_pull(d, c, ps) ==
    IF c.kind = "List" THEN list_next_object(d, c, ps) ELSE dict_next_pair(d, c, ps)

\* A drain that pulls again after a pull that failed.
drain_stack_retry(stk, r) ==
    IF ~r.ok THEN stk
    ELSE IF r.obj = None THEN SubSeq(stk, 1, Len(stk) - 1)
    ELSE IF IsCursor(r.obj)
         THEN Append(Append(SubSeq(stk, 1, Len(stk) - 1), r.c), NewCursor(r.obj.kind, r.ps))
    ELSE Append(SubSeq(stk, 1, Len(stk) - 1), r.c)

\* The cursors left to drain after the pull r on the innermost of stk.
drain_stack(stk, r) ==
    IF ~r.ok \/ r.obj = None THEN SubSeq(stk, 1, Len(stk) - 1)
    ELSE IF IsCursor(r.obj)
         THEN Append(Append(SubSeq(stk, 1, Len(stk) - 1), r.c), NewCursor(r.obj.kind, r.ps))
    ELSE Append(SubSeq(stk, 1, Len(stk) - 1), r.c)

DrainStep(r) ==
    /\ offset' = r.ps.offset
    /\ peeked_token' = r.ps.peeked
    /\ stack' = drain_stack(stack, r)
    /\ last' = Last("drain", r.ok, r.obj, r.key, r.err, Top, offset, <<>>)
    /\ UNCHANGED <<data, plain, decoded>>

\* One turn of the drain of the innermost cursor.
DrainPull ==
    /\ stack # <<>>
    /\ DrainStep(drain_pull(data, Top, PS(offset, peeked_token)))

\* The cursors have gone out of scope: only their drains run from here on.
Draining == last.op = "drain"

\* What the owner of the cursors does before they go out of scope.
Use == ~Draining /\ (Parse \/ NextObject \/ NextPair)

NextDrain == Use \/ DrainPull

\* A Drop that has begun runs on: weak fairness of DrainPull.  The action is
\* enabled exactly when a cursor is left, and it never stutters (every turn
\* moves the offset or the stack), so WF_vars(DrainPull) is written with
\* ENABLED <<DrainPull>>_vars spelled out as stack # <<>>.
DrainFairness == []<>(stack = <<>>) \/ []<><<DrainPull>>_vars

SpecDrain == InitDrain /\ [][NextDrain]_vars /\ DrainFairness

(***************************************************************************)
(* The tokenizer alone, on every byte sequence of at most MaxBytes bytes   *)
(* and on encoded byte strings followed by other bytes.                    *)
(***************************************************************************)
Bytes == {"e", ":", "l", "d", "i", "0", "1", "-", "a"}

RECURSIVE ByteSeqs(_)
ByteSeqs(n) ==
    IF n = 0 THEN { <<>> } ELSE Extend(ByteSeqs(n - 1), { <<b>> : b \in Bytes })

\* i-5e, i007e and i12
TokenExamples ==
    { <<"i", "-", "5", "e">>, <<"i", "0", "0", "7", "e">>, <<"i", "1", "2">> }

\* Byte strings whose declared length is usize::MAX + 1, which no machine
\* word holds, and usize::MAX, which added to any offset but 0 overflows.
LengthExamples ==
    { SubSeq(UsizeMaxDigits, 1, 19) \o <<"6", ":", "a">>,
      UsizeMaxDigits \o <<":", "a">> }

TokenInputs == ByteSeqs(MaxBytes) \cup TokenExamples \cup LengthExamples

\* The byte strings that are encoded: every content up to MaxContent bytes,
\* and longer ones (a length prefix of two digits) of one repeated byte.
Contents ==
    ByteSeqs(MaxContent) \cup { [i \in 1..n |-> b] : n \in 10..MaxLong, b \in Bytes }

Trailers == { <<>>, <<"e">>, <<"1">>, <<":", "a">> }

InitTok ==
    /\ \/ /\ data \in TokenInputs
          /\ plain = NoPlain
       \/ \E b \in Contents, t \in Trailers :
             /\ data = EncodeBytes(b) \o t
             /\ plain = Plain(BytesV(b))
    /\ New

\* The state after peek_token or next_token returned r.
TokenStep(op, r) ==
    /\ offset' = r.ps.offset
    /\ peeked_token' = r.ps.peeked
    /\ last' = Last(op, r.ok, r.tok, NoKey, r.err, NoCursor, offset, <<>>)
    /\ UNCHANGED <<data, plain, stack, decoded>>

NextToken == TokenStep("next_token", next_token(data, PS(offset, peeked_token)))

PeekToken == TokenStep("peek_token", peek_token(data, PS(offset, peeked_token)))

NextTok == NextToken \/ PeekToken

SpecTok == InitTok /\ [][NextTok]_vars

(***************************************************************************)
(* The adapter alone: from_bytes::<T> for the scalar, optional, sequence   *)
(* and map types T, on integers around the limits of the integer types,    *)
(* on single tokens, and on lists and dictionaries, whole or cut short.    *)
(***************************************************************************)
IntTypes == {"i8", "u8", "i16", "u16", "i32", "u32", "i64", "u64"}

\* Integers in ascending order: the MIN and MAX of every integer type and
\* their neighbours.
IntLiterals ==
    << <<"-", "9", "2", "2", "3", "3", "7", "2", "0", "3", "6", "8", "5", "4", "7", "7", "5", "8", "0", "9">>,
       <<"-", "9", "2", "2", "3", "3", "7", "2", "0", "3", "6", "8", "5", "4", "7", "7", "5", "8", "0", "8">>,
       <<"-", "2", "1", "4", "7", "4", "8", "3", "6", "4", "9">>,
       <<"-", "2", "1", "4", "7", "4", "8", "3", "6", "4", "8">>,
       <<"-", "3", "2", "7", "6", "9">>,
       <<"-", "3", "2", "7", "6", "8">>,
       <<"-", "1", "2", "9">>,
       <<"-", "1", "2", "8">>,
       <<"-", "7">>,
       <<"-", "1">>,
       <<"0">>,
       <<"1">>,
       <<"1", "3">>,
       <<"1", "2", "7">>,
       <<"1", "2", "8">>,
       <<"2", "5", "5">>,
       <<"2", "5", "6">>,
       <<"3", "2", "7", "6", "7">>,
       <<"3", "2", "7", "6", "8">>,
       <<"6", "5", "5", "3", "5">>,
       <<"6", "5", "5", "3", "6">>,
       <<"2", "1", "4", "7", "4", "8", "3", "6", "4", "7">>,
       <<"2", "1", "4", "7", "4", "8", "3", "6", "4", "8">>,
       <<"4", "2", "9", "4", "9", "6", "7", "2", "9", "5">>,
       <<"4", "2", "9", "4", "9", "6", "7", "2", "9", "6">>,
       <<"9", "2", "2", "3", "3", "7", "2", "0", "3", "6", "8", "5", "4", "7", "7", "5", "8", "0", "7">>,
       <<"9", "2", "2", "3", "3", "7", "2", "0", "3", "6", "8", "5", "4", "7", "7", "5", "8", "0", "8">>,
       <<"1", "8", "4", "4", "6", "7", "4", "4", "0", "7", "3", "7", "0", "9", "5", "5", "1", "6", "1", "5">>,
       <<"1", "8", "4", "4", "6", "7", "4", "4", "0", "7", "3", "7", "0", "9", "5", "5", "1", "6", "1", "6">> >>

IntShapes == { IntShape(ty) : ty \in IntTypes }

TypedShapes ==
    IntShapes
    \cup { BoolShape, StrShape, BytesShape, AnyShape,
           OptionShape(IntShape("i64")), OptionShape(StrShape),
           OptionShape(SeqShape(IntShape("i64"))),
           SeqShape(IntShape("i64")), SeqShape(AnyShape),
           TupleShape(<<IntShape("i64"), IntShape("i64")>>),
           MapShape(StrShape, AnyShape), MapShape(BytesShape, AnyShape),
           MapShape(StrShape, IntShape("i64")),
           UnitShape, Enum, Kinds }

\* 1:<0xFF>, a byte string that is not UTF-8.
NotUtf8 == <<"1", ":", InvalidUtf8Byte>>

DeItems ==
    { <<"i", "1", "e">>, <<"i", "0", "e">>, <<"i", "-", "1", "e">>,
      <<"1", ":", "a">>, NotUtf8, <<"l", "e">>, <<"d", "e">> }

\* Single tokens and inputs that are no value: nothing, a lone End, i12 and
\* 1: cut short, a byte that starts no token.
DeSingles ==
    DeItems \cup { <<>>, <<"e">>, <<"i", "1", "2">>, <<"1", ":">>, <<"a">> }

RECURSIVE ItemSeqs(_)
ItemSeqs(n) == IF n = 0 THEN { <<>> } ELSE Extend(ItemSeqs(n - 1), DeItems)

\* Lists, closed by their End or cut short before it.
DeLists == { <<"l">> \o b \o t : b \in ItemSeqs(MaxItems), t \in { <<"e">>, <<>> } }

\* Keys (a, b, a key that is not UTF-8, an integer) and values of entries.
DeEntries ==
    { k \o v : k \in { <<"1", ":", "a">>, <<"1", ":", "b">>, NotUtf8, <<"i", "1", "e">> },
               v \in { <<"i", "1", "e">>, <<"i", "0", "e">>, <<"1", ":", "a">>, <<"l", "e">> } }

RECURSIVE EntrySeqs(_)
EntrySeqs(n) == IF n = 0 THEN { <<>> } ELSE Extend(EntrySeqs(n - 1), DeEntries)

\* Dictionaries: closed, cut short, or with a last key that has no value.
DeDicts ==
    { <<"d">> \o b \o t : b \in EntrySeqs(MaxEntries),
                          t \in { <<"e">>, <<>>, <<"1", ":", "a", "e">> } }

\* Inputs that start with an End.
DeEnds == { <<"e">> \o t : t \in { <<"e">>, <<"i", "1", "e">>, <<"l", "e">>, <<"d", "e">> } }

\* d4:Unit, a dictionary whose one key names the unit variant of Enum.
UnitKey == <<"d">> \o EncodeBytes(Enum.names[1])

\* Enums: the encoded values of Enum and Kinds and the unit variant in its
\* dictionary form (closed, cut short, with a payload), alone and followed
\* by a sibling.
DeEnums ==
    { b \o t : b \in { Encode(v) : v \in EnumValues \cup KindsValues }
                      \cup { UnitKey \o c : c \in { <<"e">>, <<>>, <<"i", "1", "e", "e">> } },
               t \in { <<>>, <<"i", "1", "e">> } }

\* Most items of the lists that are given trailing bytes.
MaxTrailed == 2

\* Complete values: the single ones, the encoded integer literals, lists of
\* at most MaxTrailed items and dictionaries of fewer entries than that.
DeValues ==
    DeItems
    \cup { Encode(IntV(IntLiterals[i])) : i \in 1..Len(IntLiterals) }
    \cup { <<"l">> \o b \o <<"e">> : b \in ItemSeqs(MaxTrailed) }
    \cup { <<"d">> \o b \o <<"e">> : b \in EntrySeqs(MaxTrailed - 1) }

\* Bytes after a value: an End, a byte that starts no token, another value,
\* a token cut short, a list left open.
DeTrailers == { <<"e">>, <<"a">>, <<"i", "1", "e">>, <<"1", ":">>, <<"l">> }

\* A complete value followed by trailing bytes.
DeTrailed == { v \o t : v \in DeValues, t \in DeTrailers }

DeInputs == DeSingles \cup DeLists \cup DeDicts \cup DeEnds \cup DeEnums \cup DeTrailed

InitDe ==
    /\ \/ /\ data \in DeInputs
          /\ plain = NoPlain
       \/ \E i \in 1..Len(IntLiterals) :
             /\ data = Encode(IntV(IntLiterals[i]))
             /\ plain = Plain(IntV(IntLiterals[i]))
    /\ New

\* from_bytes::<T>(data) for a type T of TypedShapes.
FromBytesTyped ==
    \E shape \in TypedShapes :
        /\ last.op = "new"
        /\ FromBytesStep(shape, data, from_bytes(shape, data))

NextDe == FromBytesTyped

SpecDe == InitDe /\ [][NextDe]_vars

(***************************************************************************)
(* meta_info.rs: PieceList, the SHA-1 digests of the pieces as one byte    *)
(* string.  A PieceList value is [t |-> "PieceList", items |-> digests].   *)
(***************************************************************************)
MaxPieces == 2

\* Sha1Digest::LENGTH
LENGTH == 20

PieceListShape == Shape("PieceList", "", <<>>)

PieceList(digests) == Val("PieceList", <<>>, digests)

\* bytes.chunks_exact(LENGTH): the whole chunks, a remainder is left out.
RECURSIVE chunks_exact(_, _)
chunks_exact(bytes, n) ==
    IF Len(bytes) < n THEN <<>>
    ELSE <<SubSeq(bytes, 1, n)>> \o chunks_exact(SubSeq(bytes, n + 1, Len(bytes)), n)

\* A PieceList::deserialize that leaves out the check of the length.
piece_list_unchecked(b) ==
    IF ~b.ok THEN b
    ELSE Decoded(TRUE, PieceList(chunks_exact(b.val.s, LENGTH)), NoErr, b.ps)

\* PieceList::deserialize after <&[u8]>::deserialize (b).
piece_list(b) ==
    IF ~b.ok THEN b
    ELSE IF Len(b.val.s) % LENGTH # 0 THEN Fail(VisitorError, b.ps)
    ELSE Decoded(TRUE, PieceList(chunks_exact(b.val.s, LENGTH)), NoErr, b.ps)

\* meta_info.rs: Deserialize for PieceList.
deserialize_piece_list(d, ps) == piece_list(deserialize_bytes(d, ps))

\* meta_info.rs: Serialize for PieceList: the digests one after the other,
\* written as one byte string.
RECURSIVE extend_from_slices(_)
extend_from_slices(digests) ==
    IF digests = <<>> THEN <<>> ELSE Head(digests) \o extend_from_slices(Tail(digests))

serialize_piece_list(v) == EncodeBytes(extend_from_slices(v.items))

\* Digests: twenty bytes "a", one of them replaced by "b" (or none).
Digests == { [i \in 1..LENGTH |-> IF i = k THEN "b" ELSE "a"] : k \in 0..LENGTH }

RECURSIVE DigestSeqs(_)
DigestSeqs(n) ==
    IF n = 0 THEN { <<>> }
    ELSE DigestSeqs(n - 1) \cup { Append(s, g) : s \in DigestSeqs(n - 1), g \in Digests }

\* Byte strings whose length is no multiple of LENGTH: up to one digest and
\* a part of another.
Ragged ==
    { s \o [i \in 1..r |-> "b"] : s \in {<<>>} \cup Digests, r \in 1..(LENGTH - 1) }

InitPieces ==
    /\ \/ \E digests \in DigestSeqs(MaxPieces) :
             /\ data = serialize_piece_list(PieceList(digests))
             /\ plain = Plain(PieceList(digests))
       \/ /\ data \in { EncodeBytes(b) : b \in Ragged }
                      \cup { <<"i", "2", "0", "e">>, <<"l", "e">>, <<"2", "0", ":", "a">> }
          /\ plain = NoPlain
    /\ New

\* from_bytes::<PieceList>(data)
FromBytesPieces ==
    /\ last.op = "new"
    /\ FromBytesStep(PieceListShape, data, deserialize_piece_list(data, PS(0, None)))

NextPieces == FromBytesPieces

SpecPieces == InitPieces /\ [][NextPieces]_vars

(***************************************************************************)
(* The wire grammar, as a recogniser that is independent of the scanner:   *)
(*   value      := integer | bytestring | list | dict                      *)
(*   integer    := 'i' '-'? ( '0' | [1-9][0-9]* ) 'e'    (no "-0")         *)
(*   bytestring := length ':' <length bytes>                               *)
(*   list       := 'l' value* 'e'                                          *)
(*   dict       := 'd' (bytestring value)* 'e'                             *)
(* Each operator gives the offset one past the phrase that starts at p, or *)
(* -1 when no such phrase starts there.                                    *)
(***************************************************************************)
ByteAt(d, p) == IF p >= 0 /\ p < Len(d) THEN d[p + 1] ELSE "EOF"

RECURSIVE DigitRunEnd(_, _)
DigitRunEnd(d, p) == IF ByteAt(d, p) \in Digits THEN DigitRunEnd(d, p + 1) ELSE p

\* '0' | [1-9][0-9]* from p, where r is the end of the digits that start at p.
NumberEndOfRun(d, p, r) ==
    IF r > p /\ (ByteAt(d, p) # "0" \/ r = p + 1) THEN r ELSE 0 - 1

GrammarNumberEnd(d, p) == NumberEndOfRun(d, p, DigitRunEnd(d, p))

\* The integer whose 'i' is at p and whose digits, from q, end at r.
IntEndOfNumber(d, p, q, r) ==
    IF /\ ByteAt(d, p) = "i"
       /\ r # 0 - 1
       /\ ~(q = p + 2 /\ ByteAt(d, q) = "0")
       /\ ByteAt(d, r) = "e"
    THEN r + 1 ELSE 0 - 1

GrammarIntEnd(d, p) ==
    IF ByteAt(d, p + 1) = "-"
    THEN IntEndOfNumber(d, p, p + 2, GrammarNumberEnd(d, p + 2))
    ELSE IntEndOfNumber(d, p, p + 1, GrammarNumberEnd(d, p + 1))

\* The byte string whose length prefix starts at p and ends at r.
BytesEndOfLength(d, p, r) ==
    IF r # 0 - 1 /\ r - p <= 9 /\ ByteAt(d, r) = ":"
       /\ r + 1 + DecVal(Slice(d, p, r)) <= Len(d)
    THEN r + 1 + DecVal(Slice(d, p, r)) ELSE 0 - 1

GrammarBytesEnd(d, p) == BytesEndOfLength(d, p, GrammarNumberEnd(d, p))

RECURSIVE GrammarValueEnd(_, _)
RECURSIVE GrammarItemsEnd(_, _)
RECURSIVE GrammarPairsEnd(_, _)

GrammarValueEnd(d, p) ==
    CASE ByteAt(d, p) = "i" -> GrammarIntEnd(d, p)
      [] ByteAt(d, p) \in Digits -> GrammarBytesEnd(d, p)
      [] ByteAt(d, p) = "l" -> GrammarItemsEnd(d, p + 1)
      [] ByteAt(d, p) = "d" -> GrammarPairsEnd(d, p + 1)
      [] OTHER -> 0 - 1

\* The rest of a list or dict body after an element that ends at v.
ItemsAfter(d, v) == IF v = 0 - 1 THEN 0 - 1 ELSE GrammarItemsEnd(d, v)

GrammarItemsEnd(d, p) ==
    IF ByteAt(d, p) = "e" THEN p + 1 ELSE ItemsAfter(d, GrammarValueEnd(d, p))

PairsAfter(d, v) == IF v = 0 - 1 THEN 0 - 1 ELSE GrammarPairsEnd(d, v)

ValueAfterKey(d, k) == IF k = 0 - 1 THEN 0 - 1 ELSE GrammarValueEnd(d, k)

GrammarPairsEnd(d, p) ==
    IF ByteAt(d, p) = "e" THEN p + 1
    ELSE PairsAfter(d, ValueAfterKey(d, GrammarBytesEnd(d, p)))

\* A well-formed value starts at offset p.
WellFormedAt(d, p) == GrammarValueEnd(d, p) # 0 - 1

\* The object the grammar puts at offset p (a well-formed value starts there
\* and ends at e).
ObjectUpTo(d, p, e) ==
    CASE ByteAt(d, p) = "i" -> Obj("Int", Slice(d, p + 1, e - 1))
      [] ByteAt(d, p) = "l" -> Obj("List", <<>>)
      [] ByteAt(d, p) = "d" -> Obj("Dict", <<>>)
      [] OTHER -> Obj("Bytes", Slice(d, DigitRunEnd(d, p) + 1, e))

GrammarObject(d, p) == ObjectUpTo(d, p, GrammarValueEnd(d, p))

\* The offsets at which the items of the well-formed list body at p start.
RECURSIVE GrammarItemStarts(_, _)
GrammarItemStarts(d, p) ==
    IF ByteAt(d, p) = "e" THEN <<>>
    ELSE <<p>> \o GrammarItemStarts(d, GrammarValueEnd(d, p))

\* The offsets at which the keys of the well-formed dict body at p start.
RECURSIVE GrammarKeyStarts(_, _)
GrammarKeyStarts(d, p) ==
    IF ByteAt(d, p) = "e" THEN <<>>
    ELSE <<p>> \o GrammarKeyStarts(d, GrammarValueEnd(d, GrammarBytesEnd(d, p)))

(***************************************************************************)
(* Properties.                                                             *)
(***************************************************************************)
IsPull(op) == op \in {"next_object", "next_pair"}

\* What the grammar says the next pull of a well-formed parent returns at
\* offset p: nothing at the parent's End, else the element that starts there.
GrammarItem(d, p) ==
    IF ByteAt(d, p) = "e" THEN None ELSE GrammarObject(d, p)

GrammarPairKey(d, p) ==
    IF ByteAt(d, p) = "e" THEN NoKey ELSE GrammarObject(d, p).span

GrammarPairValue(d, p) ==
    IF ByteAt(d, p) = "e" THEN None ELSE GrammarObject(d, GrammarBytesEnd(d, p))

\* C1: after the drop of a cursor over a well-formed structure, whatever was
\* pulled from it, the tokenizer is one byte past the structure's End with no
\* token cached, and the next pull of the (well-formed) enclosing cursor
\* returns the element the grammar puts at that offset.
C1_DropPosition ==
    (last.op = "drop" /\ WellFormedAt(data, last.start)) =>
        /\ offset = GrammarValueEnd(data, last.start)
        /\ peeked_token = None

C1_NextSibling ==
    (/\ IsPull(last.op) /\ last.pop = "drop"
     /\ WellFormedAt(data, last.pstart)
     /\ WellFormedAt(data, last.start)) =>
        /\ last.ok
        /\ last.pre = GrammarValueEnd(data, last.pstart)
        /\ IF last.ckind = "List"
           THEN Obj(last.kind, last.span) = GrammarItem(data, last.pre)
           ELSE /\ last.key = GrammarPairKey(data, last.pre)
                /\ Obj(last.kind, last.span) = GrammarPairValue(data, last.pre)

C1_AbandonedCursorLeavesParentAtSibling == C1_DropPosition /\ C1_NextSibling

\* C1 witness: in ld1:ai1e1:bi2eei5ee the dict was dropped after one of its two
\* pairs, and the list's next pull returned the second element, 5.
C1_Witness ==
    /\ data = ExampleSibling
    /\ last.op = "next_object" /\ last.ok /\ last.kind = "Int" /\ last.span = <<"5">>
    /\ last.pop = "drop" /\ last.ppulls = 1 /\ ~last.pfin /\ last.pstart = 1

\* The object in key position at offset p, by the grammar: "Int", "List",
\* "Dict", "Bytes", or "Other" (an End, or nothing well-formed).
KeyShape(d, p) ==
    CASE ByteAt(d, p) = "l" -> "List"
      [] ByteAt(d, p) = "d" -> "Dict"
      [] GrammarIntEnd(d, p) # 0 - 1 -> "Int"
      [] GrammarBytesEnd(d, p) # 0 - 1 -> "Bytes"
      [] OTHER -> "Other"

\* C3: a next_pair that finds an integer, a list or a dict in key position
\* fails with an error; it does not report the end of the dictionary.
C3_NonBytesKeyIsError ==
    (/\ last.op = "next_pair" /\ ~last.fin
     /\ KeyShape(data, last.pre) \in {"Int", "List", "Dict"}) =>
        ~last.ok

\* C10: a next_pair whose byte-string key is followed at once by End fails
\* with a decode error reported at the offset after the key: no key is
\* returned and no end of dictionary is reported.
C10_KeyWithoutValueIsError ==
    (/\ last.op = "next_pair" /\ ~last.fin
     /\ KeyShape(data, last.pre) = "Bytes"
     /\ ByteAt(data, GrammarBytesEnd(data, last.pre)) = "e") =>
        /\ ~last.ok
        /\ last.err = BencodeDecode(GrammarBytesEnd(data, last.pre))
        /\ last.key = NoKey /\ last.kind = "None"
        /\ ~Top.finished

C10_Witness ==
    /\ last.op = "next_pair" /\ ~last.fin
    /\ KeyShape(data, last.pre) = "Bytes"
    /\ ByteAt(data, GrammarBytesEnd(data, last.pre)) = "e"
    /\ ~last.ok
    /\ Len(stack) = 2

\* The offset one past the End token that closes the structure opened at
\* offset p, counting the tokens between them: every List or Dict token opens
\* a level and every End closes one; -1 when the bytes after p hold no such End.
RECURSIVE CloseEnd(_, _, _)
\* CloseEnd after a scalar token that ends at e.
CloseAfter(d, e, depth) == IF e = 0 - 1 THEN 0 - 1 ELSE CloseEnd(d, e, depth)

CloseEnd(d, p, depth) ==
    CASE ByteAt(d, p) = "e" ->
           IF depth = 1 THEN p + 1 ELSE CloseEnd(d, p + 1, depth - 1)
      [] ByteAt(d, p) \in {"l", "d"} -> CloseEnd(d, p + 1, depth + 1)
      [] ByteAt(d, p) = "i" -> CloseAfter(d, GrammarIntEnd(d, p), depth)
      [] ByteAt(d, p) \in Digits -> CloseAfter(d, GrammarBytesEnd(d, p), depth)
      [] OTHER -> 0 - 1

MatchingEnd(d, start) == CloseEnd(d, start + 1, 1)

\* C2: whenever the conversion of a cursor into raw bytes succeeds, the slice
\* runs from the structure's opening byte to one byte past its matching End.
C2_RawSliceIsTheStructure ==
    (last.op = "try_from" /\ last.ok) =>
        /\ MatchingEnd(data, last.start) # 0 - 1
        /\ last.slice = Slice(data, last.start, MatchingEnd(data, last.start))

\* C8: for a well-formed structure the conversion succeeds and gives the
\* slice a conversion of the untouched cursor gives, however many items or
\* pairs were pulled before it.
C8_RawSliceIgnoresProgress ==
    (last.op = "try_from" /\ WellFormedAt(data, last.start)) =>
        /\ last.ok
        /\ last.slice =
             try_from(data, NewCursor(last.ckind, PS(last.start + 1, None)),
                      PS(last.start + 1, None)).slice
        /\ offset = last.start + Len(last.slice)

\* C8 witness: the dict of ld1:ai1e1:bi2eei5ee converted after one of its two pairs.
C8_Witness ==
    /\ data = ExampleSibling
    /\ last.op = "try_from" /\ last.ok /\ last.start = 1
    /\ last.pulls = 1 /\ ~last.fin
    /\ last.slice = Slice(ExampleSibling, 1, 15)

\* A token scan: peek_token or next_token with no token cached.
IsScan == last.op \in {"next_token", "peek_token"} /\ ~last.hit

\* C4: the scan of a token at an 'i' succeeds exactly when the bytes after it
\* are -?(0|[1-9][0-9]*) without "-0", followed by 'e'; the token's span is
\* that body and the offset moves past the 'e'.  Every other body (a leading
\* zero, "-0", a bare sign, no digit, no 'e') is a decode error.
C4_IntegerGrammar ==
    (IsScan /\ ByteAt(data, last.pre) = "i") =>
        IF GrammarIntEnd(data, last.pre) # 0 - 1
        THEN /\ last.ok /\ last.kind = "Num"
             /\ last.span = Slice(data, last.pre + 1, GrammarIntEnd(data, last.pre) - 1)
             /\ offset = GrammarIntEnd(data, last.pre)
        ELSE /\ ~last.ok /\ last.kind = "None"
             /\ last.err.kind = "BencodeDecode"

\* C4 witness: i-5e scanned into the span -5.
C4_Witness ==
    /\ data = <<"i", "-", "5", "e">>
    /\ last.op = "next_token" /\ last.ok
    /\ last.kind = "Num" /\ last.span = <<"-", "5">> /\ offset = 4

\* C5: the scan of a well-formed byte string gives a String token whose span
\* has the length its prefix states and is the bytes after the ':', and the
\* offset ends just past them; the scan of the encoding of a byte string b
\* gives b back, whatever bytes b holds and whatever follows the encoding.
C5_Scan ==
    (IsScan /\ GrammarBytesEnd(data, last.pre) # 0 - 1) =>
        /\ last.ok /\ last.kind = "String"
        /\ Len(last.span) = DecVal(Slice(data, last.pre, DigitRunEnd(data, last.pre)))
        /\ last.span = Slice(data, DigitRunEnd(data, last.pre) + 1, offset)
        /\ offset = GrammarBytesEnd(data, last.pre)

C5_RoundTrip ==
    (IsScan /\ plain.some /\ last.pre = 0) =>
        /\ last.ok /\ last.kind = "String"
        /\ last.span = plain.value.s
        /\ offset = Len(EncodeBytes(plain.value.s))

C5_ByteStringRoundTrip == C5_Scan /\ C5_RoundTrip

\* C5 witness: ten bytes ':' encoded as 10:::::::::::, followed by an 'e'.
C5_Witness ==
    /\ plain = Plain(BytesV([i \in 1..10 |-> ":"]))
    /\ Len(data) = 14 /\ data[14] = "e"
    /\ last.op = "next_token" /\ last.ok /\ last.span = plain.value.s /\ offset = 13

(***************************************************************************)
(* The value the grammar gives the well-formed phrase at offset p, as a    *)
(* generic target holds it: integers, byte strings, sequences and maps,    *)
(* the entries of a map in wire order.                                     *)
(***************************************************************************)
RECURSIVE GrammarVal(_, _)
RECURSIVE GrammarItemVals(_, _)
RECURSIVE GrammarPairVals(_, _)
GrammarVal(d, p) ==
    CASE ByteAt(d, p) = "i" -> IntV(GrammarObject(d, p).span)
      [] ByteAt(d, p) = "l" -> Val("Seq", <<>>, GrammarItemVals(d, p + 1))
      [] ByteAt(d, p) = "d" -> MapV(GrammarPairVals(d, p + 1))
      [] OTHER -> BytesV(GrammarObject(d, p).span)

GrammarItemVals(d, p) ==
    IF ByteAt(d, p) = "e" THEN <<>>
    ELSE <<GrammarVal(d, p)>> \o GrammarItemVals(d, GrammarValueEnd(d, p))

GrammarPairVals(d, p) ==
    IF ByteAt(d, p) = "e" THEN <<>>
    ELSE <<Pair(GrammarVal(d, p), GrammarVal(d, GrammarBytesEnd(d, p)))>>
         \o GrammarPairVals(d, GrammarValueEnd(d, GrammarBytesEnd(d, p)))

\* The map m with its keys held as strings.
StrKeys(m) ==
    MapV([i \in 1..Len(m.items) |->
            Pair(StrV(m.items[i].items[1].s), m.items[i].items[2])])

\* The pair the last next_pair returned is the k-th of the keys (the offsets
\* at which the keys of the dictionary start), or nothing after the last.
PairIs(keys, k) ==
    /\ last.ok
    /\ IF ~last.fin /\ k <= Len(keys)
       THEN /\ last.key = GrammarPairKey(data, keys[k])
            /\ Obj(last.kind, last.span) = GrammarPairValue(data, keys[k])
       ELSE /\ last.key = NoKey
            /\ last.kind = "None"

\* C6, the cursor: the k-th next_pair on a well-formed dictionary returns
\* its k-th pair in wire order, and every call after the last pair "no value".
C6_NextPair ==
    (last.op = "next_pair" /\ WellFormedAt(data, last.start)) =>
        PairIs(GrammarKeyStarts(data, last.start + 1), last.pulls + 1)

\* C6, the adapter: from_bytes of a well-formed dictionary into a generic map
\* target succeeds with the entries of the dictionary in wire order.
C6_FromBytes ==
    (/\ last.op = "from_bytes"
     /\ decoded.shape \in {AnyShape, StrAnyMap}
     /\ ByteAt(last.slice, 0) = "d"
     /\ WellFormedAt(last.slice, 0)) =>
        /\ decoded.r.ok
        /\ decoded.r.val = IF decoded.shape = AnyShape
                           THEN GrammarVal(last.slice, 0)
                           ELSE StrKeys(GrammarVal(last.slice, 0))

\* C6, the example: d4:key15:value4:key2i123ee is key1 -> "value", then
\* key2 -> 123, then the end of the dictionary.
C6_Example ==
    /\ (data = ExampleKeys /\ last.op = "next_pair" /\ last.start = 0) =>
          CASE last.pulls = 0 ->
                 /\ last.key = <<"k", "e", "y", "1">>
                 /\ Obj(last.kind, last.span) = Obj("Bytes", <<"v", "a", "l", "u", "e">>)
            [] last.pulls = 1 ->
                 /\ last.key = <<"k", "e", "y", "2">>
                 /\ Obj(last.kind, last.span) = Obj("Int", <<"1", "2", "3">>)
            [] OTHER -> last.ok /\ last.kind = "None"
    /\ (last.op = "from_bytes" /\ last.slice = ExampleKeys /\ decoded.shape = StrAnyMap) =>
          decoded.r.val =
            MapV(<<Pair(StrV(<<"k", "e", "y", "1">>), BytesV(<<"v", "a", "l", "u", "e">>)),
                   Pair(StrV(<<"k", "e", "y", "2">>), IntV(<<"1", "2", "3">>))>>)

\* C6: a well-formed dictionary yields its pairs one by one in wire order and
\* then "no value", through next_pair and through a generic map target.
C6_DictPairsInWireOrder == C6_NextPair /\ C6_FromBytes /\ C6_Example

\* C6 witness: the example converted to its raw bytes after both pairs were
\* pulled, and the bytes decoded into a map from strings to generic values.
C6_Witness ==
    /\ data = ExampleKeys
    /\ last.op = "from_bytes" /\ last.pop = "try_from" /\ last.ppulls = 2
    /\ decoded.shape = StrAnyMap /\ decoded.r.ok
    /\ Len(decoded.r.val.items) = 2
    /\ decoded.r.val.items[2] = Pair(StrV(<<"k", "e", "y", "2">>), IntV(<<"1", "2", "3">>))

\* C7: from_bytes of the encoding of a value of an enum (the name of a unit
\* variant as a bare byte string, every other variant as the single-entry
\* dict from its name to its payload) gives that variant with that payload,
\* for integer, string, tuple and map payloads, and reads the whole input.
C7_EnumDecoding ==
    (/\ last.op = "from_bytes"
     /\ plain.some
     /\ last.slice = Encode(plain.value)
     /\ \/ decoded.shape = Enum /\ plain.value \in EnumValues
        \/ decoded.shape = Kinds /\ plain.value \in KindsValues) =>
        /\ decoded.r.ok
        /\ decoded.r.val = plain.value
        /\ decoded.r.ps.offset = Len(last.slice)

\* C7 witness: d3:Inti13ee decoded to Int(13).
C7_Witness ==
    /\ data = <<"d", "3", ":", "I", "n", "t", "i", "1", "3", "e", "e">>
    /\ last.op = "from_bytes" /\ decoded.shape = Enum /\ decoded.r.ok
    /\ decoded.r.val = Variant(<<"I", "n", "t">>, <<IntV(<<"1", "3">>)>>)

\* What a pull returned, without the state of the cursor and the parser.
PullResult(r) == [ok |-> r.ok, key |-> r.key, obj |-> r.obj]

RECURSIVE Pulls(_, _, _, _)
PullsAfter(d, r, acc) ==
    IF ~r.ok \/ r.obj = None THEN Append(acc, PullResult(r))
    ELSE Pulls(d, r.c, drop_object(d, r.obj, r.ps), Append(acc, PullResult(r)))

\* The results of pulling the cursor c until an error or "no value", each
\* item dropped before the next pull.
Pulls(d, c, ps, acc) ==
    PullsAfter(d, IF c.kind = "List" THEN list_next_object(d, c, ps)
                  ELSE dict_next_pair(d, c, ps), acc)

\* The results of a fresh cursor on the structure that opens at offset p of d.
PullsAt(d, p) ==
    Pulls(d, NewCursor(IF ByteAt(d, p) = "l" THEN "List" ELSE "Dict", PS(p + 1, None)),
          PS(p + 1, None), <<>>)

SameValue(a, b) == a.ok = b.ok /\ a.val = b.val

\* C9: the raw bytes a conversion gave decode, as an input of their own, to
\* the typed value and to the cursor results that the structure gives where
\* it stands in the input it was taken from.
C9_RedecodeAgrees ==
    (last.op = "from_bytes" /\ last.pop = "try_from") =>
        /\ SameValue(decoded.r, deserialize(decoded.shape, data, PS(last.pstart, None)))
        /\ PullsAt(last.slice, 0) = PullsAt(data, last.pstart)

\* C11: a pull on a finished cursor returns "no value" and leaves the
\* tokenizer alone: the offset and the (empty) look-ahead are the ones before
\* the call, and the cursor is still finished.
C11_FinishedCursorIsInert ==
    (IsPull(last.op) /\ last.fin) =>
        /\ last.ok /\ last.kind = "None" /\ last.key = NoKey
        /\ offset = last.pre
        /\ ~last.hit /\ peeked_token = None
        /\ Top.finished /\ Top.start_point = last.start /\ Top.pulls = last.pulls

\* C11 witness: the inner dict of ld1:ai1e1:bi2eei5ee pulled once more after
\* it reported its end, the 5 of the enclosing list still unread.
C11_Witness ==
    /\ data = ExampleSibling
    /\ last.op = "next_pair" /\ last.fin /\ last.pop = "next_pair" /\ last.pfin
    /\ last.start = 1 /\ offset = 15 /\ Len(stack) = 2

\* The bytes of d from offset p to the end are the beginning of an integer
\* body that no byte has yet made illegal: nothing, "-", "0", or an optional
\* "-" and a nonzero digit followed by digits.
IntBodyPrefix(d, p) ==
    \/ p >= Len(d)
    \/ p = Len(d) - 1 /\ ByteAt(d, p) \in {"-", "0"}
    \/ /\ ByteAt(d, p) \in NonZeroDigits
       /\ DigitRunEnd(d, p) = Len(d)
    \/ /\ ByteAt(d, p) = "-"
       /\ ByteAt(d, p + 1) \in NonZeroDigits
       /\ DigitRunEnd(d, p + 1) = Len(d)

\* Every byte of d from offset p to the end is a sign or a digit.
RECURSIVE IntBodyChars(_, _)
IntBodyChars(d, p) ==
    p >= Len(d) \/ (ByteAt(d, p) \in Digits \cup {"-"} /\ IntBodyChars(d, p + 1))

\* C12 as stated: an input that ends after an 'i' and any signs and digits
\* fails at the offset of the end of the input.
C12_TruncatedIntegerAtInputEnd ==
    (IsScan /\ ByteAt(data, last.pre) = "i" /\ IntBodyChars(data, last.pre + 1)) =>
        /\ ~last.ok
        /\ last.err = BencodeDecode(Len(data))

\* C12, amended: an input that ends after an 'i' and the beginning of a
\* legal body fails with a decode error at the offset of the end of the input;
\* if a byte already broke the grammar the error is a decode error at that byte.
C12_TruncatedLegalPrefixAtInputEnd ==
    (IsScan /\ ByteAt(data, last.pre) = "i" /\ IntBodyChars(data, last.pre + 1)) =>
        /\ ~last.ok
        /\ last.err.kind = "BencodeDecode"
        /\ IF IntBodyPrefix(data, last.pre + 1)
           THEN last.err.at = Len(data)
           ELSE last.err.at > last.pre /\ last.err.at < Len(data)
        /\ offset = last.pre + 1

\* C12 witness: i12 fails at offset 3.
C12_Witness ==
    /\ data = <<"i", "1", "2">>
    /\ last.op = "next_token" /\ ~last.ok /\ last.err = BencodeDecode(3)

\* The place of the integer v among IntLiterals.
LitIndex(v) == CHOOSE i \in 1..Len(IntLiterals) : IntLiterals[i] = v

\* The integer literal number i lies in the range of the type: between the
\* places of the type's MIN (0 for an unsigned type) and MAX in the ascending
\* IntLiterals.
InRange(ty, i) ==
    /\ LitIndex(IF Signed(ty) THEN <<"-">> \o MinDigits(ty) ELSE <<"0">>) <= i
    /\ i <= LitIndex(MaxDigits(ty))

\* The first token of d is a byte string, a List, a Dict or an End.
StartsWithOtherToken(d) ==
    ByteAt(d, 0) \in {"l", "d", "e"} \/ GrammarBytesEnd(d, 0) # 0 - 1

\* C13: from_bytes into an integer type gives the value of the Integer token
\* when it lies in the range of the type (the MIN and the MAX included) and a
\* conversion error (never another value) when it lies outside or is
\* negative for an unsigned type; any other token is a shape-mismatch error.
C13_IntegerTargets ==
    (last.op = "from_bytes" /\ decoded.shape.t = "Int") =>
        /\ plain.some =>
             IF InRange(decoded.shape.ty, LitIndex(plain.value.s))
             THEN decoded.r.ok /\ decoded.r.val = plain.value
             ELSE /\ ~decoded.r.ok /\ decoded.r.val = NoVal
                  /\ decoded.r.err.kind = "SerdeCustom"
        /\ StartsWithOtherToken(data) =>
             /\ ~decoded.r.ok /\ decoded.r.val = NoVal
             /\ decoded.r.err.kind = "SerdeCustom"

\* C13 witness: i-128e decoded into i8 as -128.
C13_Witness ==
    /\ data = <<"i", "-", "1", "2", "8", "e">>
    /\ last.op = "from_bytes" /\ decoded.shape = IntShape("i8")
    /\ decoded.r.ok /\ decoded.r.val = IntV(<<"-", "1", "2", "8">>)

\* C14: from_bytes into bool reads an Integer token and gives true for every
\* strictly positive value, false for zero and for every negative value.
C14_BoolFromInteger ==
    (last.op = "from_bytes" /\ decoded.shape = BoolShape /\ plain.some) =>
        /\ decoded.r.ok
        /\ decoded.r.val =
             Val("Bool", IF LitIndex(plain.value.s) > LitIndex(<<"0">>)
                         THEN <<"true">> ELSE <<"false">>, <<>>)

\* The first token of d is an Integer, a List, a Dict or an End.
StartsWithNoBytes(d) ==
    ByteAt(d, 0) \in {"l", "d", "e"} \/ GrammarIntEnd(d, 0) # 0 - 1

IsFromBytes(shape) == last.op = "from_bytes" /\ decoded.shape = shape

ShapeError == ~decoded.r.ok /\ decoded.r.val = NoVal /\ decoded.r.err.kind = "SerdeCustom"

\* C15: from_bytes into a text or a bytes type needs a ByteString token, any
\* other token being a shape-mismatch error; text needs the span to be UTF-8
\* and fails with a conversion error otherwise, bytes are the span unchanged.
C15_TextAndBytesTargets ==
    /\ (last.op = "from_bytes" /\ decoded.shape \in {StrShape, BytesShape}
          /\ StartsWithNoBytes(data)) => ShapeError
    /\ (IsFromBytes(BytesShape) /\ GrammarBytesEnd(data, 0) # 0 - 1) =>
          decoded.r.ok /\ decoded.r.val = BytesV(GrammarObject(data, 0).span)
    /\ (IsFromBytes(StrShape) /\ GrammarBytesEnd(data, 0) # 0 - 1) =>
          IF \E i \in 1..Len(data) : data[i] = InvalidUtf8Byte
          THEN ShapeError
          ELSE decoded.r.ok /\ decoded.r.val = StrV(GrammarObject(data, 0).span)

\* C15 witness: 1:<0xFF> decoded into bytes as the one byte 0xFF.
C15_Witness ==
    /\ data = NotUtf8
    /\ IsFromBytes(BytesShape)
    /\ decoded.r.ok /\ decoded.r.val = BytesV(<<InvalidUtf8Byte>>)

\* The decode of Option<T> (o) against the decode of T on the same input (v).
OptionAgrees(o, v) ==
    /\ o.ok = v.ok /\ o.err = v.err /\ o.ps = v.ps
    /\ o.val = IF v.ok THEN Val("Some", <<>>, <<v.val>>) ELSE NoVal

\* C16: from_bytes into Option<T> is the decode of T: the same tokens read,
\* Some(value) when T decodes and T's error otherwise, never an absent value;
\* an integer in the range of i64 gives Some of it, and an End, an empty
\* input or a token of another kind gives an error.
C16_OptionIsInner ==
    (last.op = "from_bytes" /\ decoded.shape.t = "Option") =>
        /\ OptionAgrees(decoded.r, from_bytes(decoded.shape.sub[1], data))
        /\ decoded.r.ok => decoded.r.val.t = "Some"
        /\ (decoded.shape = OptionShape(IntShape("i64")) /\ plain.some) =>
              IF InRange("i64", LitIndex(plain.value.s))
              THEN decoded.r.ok /\ decoded.r.val = Val("Some", <<>>, <<plain.value>>)
              ELSE ShapeError
        /\ (data \in { <<>>, <<"e">> }) => ~decoded.r.ok
        /\ (decoded.shape = OptionShape(IntShape("i64")) /\ StartsWithOtherToken(data)) =>
              ShapeError

\* C16 witness: i-7e decoded into Option<i64> as Some(-7).
C16_Witness ==
    /\ data = <<"i", "-", "7", "e">>
    /\ IsFromBytes(OptionShape(IntShape("i64")))
    /\ decoded.r.ok /\ decoded.r.val = Val("Some", <<>>, <<IntV(<<"-", "7">>)>>)

\* Every item of d that starts at one of the offsets is an integer.
AllInts(d, starts) == \A i \in 1..Len(starts) : ByteAt(d, starts[i]) = "i"

\* d is a well-formed list.
IsList(d) == ByteAt(d, 0) = "l" /\ WellFormedAt(d, 0)

SeqOfInts == SeqShape(IntShape("i64"))

PairOfInts == TupleShape(<<IntShape("i64"), IntShape("i64")>>)

\* C17: from_bytes into a sequence or tuple type needs a List token and hands
\* the elements to the target in wire order until the End of the list.  A
\* sequence takes any number of elements; a tuple of two takes the list whose
\* elements are the two it pulls, the adapter asking for no number itself.
C17_SequenceTargets ==
    /\ (last.op = "from_bytes" /\ decoded.shape \in {SeqShape(AnyShape), SeqOfInts, PairOfInts}
          /\ (ByteAt(data, 0) \in {"d", "e"} \/ GrammarBytesEnd(data, 0) # 0 - 1
                \/ GrammarIntEnd(data, 0) # 0 - 1)) => ShapeError
    /\ (IsFromBytes(SeqShape(AnyShape)) /\ IsList(data)) =>
          decoded.r.ok /\ decoded.r.val = GrammarVal(data, 0)
    /\ (IsFromBytes(SeqOfInts) /\ IsList(data)) =>
          IF AllInts(data, GrammarItemStarts(data, 1))
          THEN decoded.r.ok /\ decoded.r.val = GrammarVal(data, 0)
          ELSE ShapeError
    /\ (IsFromBytes(PairOfInts) /\ IsList(data)) =>
          IF AllInts(data, GrammarItemStarts(data, 1)) /\ Len(GrammarItemStarts(data, 1)) = 2
          THEN decoded.r.ok /\ decoded.r.val = TupleV(GrammarItemVals(data, 1))
          ELSE ShapeError

\* C17 witness: li1ei0ei-1ee decoded into a sequence of integers as 1, 0, -1.
C17_Witness ==
    /\ data = <<"l", "i", "1", "e", "i", "0", "e", "i", "-", "1", "e", "e">>
    /\ IsFromBytes(SeqOfInts) /\ decoded.r.ok
    /\ decoded.r.val.items = <<IntV(<<"1">>), IntV(<<"0">>), IntV(<<"-", "1">>)>>

\* d is a well-formed dictionary.
IsDict(d) == ByteAt(d, 0) = "d" /\ WellFormedAt(d, 0)

\* The keys of the pairs are all valid UTF-8.
KeysUtf8(pairs) ==
    \A i \in 1..Len(pairs) :
        \A j \in 1..Len(pairs[i].items[1].s) : pairs[i].items[1].s[j] # InvalidUtf8Byte

\* The map m holds, for every key of the pairs, the value of its last pair.
LastWins(m, pairs) ==
    /\ DOMAIN m = {pairs[i].items[1] : i \in 1..Len(pairs)}
    /\ \A i \in 1..Len(pairs) :
          (\A j \in (i + 1)..Len(pairs) : pairs[j].items[1] # pairs[i].items[1])
              => m[pairs[i].items[1]] = pairs[i].items[2]

ByteKeyMap == MapShape(BytesShape, AnyShape)

TextKeyMap == MapShape(StrShape, AnyShape)

TextKeyIntMap == MapShape(StrShape, IntShape("i64"))

\* C18: from_bytes into a map type needs a DictBegin token and hands every
\* pair to the target in wire order, a repeated key and keys out of order
\* included; the HashMap built from them holds the last value of each key.
C18_MapTargets ==
    /\ (last.op = "from_bytes" /\ decoded.shape.t = "Map"
          /\ (ByteAt(data, 0) \in {"l", "e"} \/ GrammarBytesEnd(data, 0) # 0 - 1
                \/ GrammarIntEnd(data, 0) # 0 - 1)) => ShapeError
    /\ (IsFromBytes(ByteKeyMap) /\ IsDict(data)) =>
          /\ decoded.r.ok
          /\ decoded.r.val.items = GrammarPairVals(data, 1)
          /\ LastWins(hash_map(decoded.r.val.items), GrammarPairVals(data, 1))
    /\ (IsFromBytes(TextKeyMap) /\ IsDict(data) /\ KeysUtf8(GrammarPairVals(data, 1))) =>
          /\ decoded.r.ok
          /\ decoded.r.val = StrKeys(GrammarVal(data, 0))
          /\ LastWins(hash_map(decoded.r.val.items), StrKeys(GrammarVal(data, 0)).items)

\* C18 witness: d1:ai1e1:ai0ee gives both pairs, and the map holds a = 0.
C18_Witness ==
    /\ data = <<"d", "1", ":", "a", "i", "1", "e", "1", ":", "a", "i", "0", "e", "e">>
    /\ IsFromBytes(ByteKeyMap) /\ decoded.r.ok
    /\ Len(decoded.r.val.items) = 2
    /\ hash_map(decoded.r.val.items)[BytesV(<<"a">>)] = IntV(<<"0">>)

\* C19 as stated: a dictionary with a key that is not valid UTF-8 fails to
\* decode into a map of every key type, byte-array keys included.
C19_KeysAreAlwaysText ==
    (last.op = "from_bytes" /\ decoded.shape.t = "Map" /\ IsDict(data)
       /\ ~KeysUtf8(GrammarPairVals(data, 1))) => ~decoded.r.ok

\* C19 amended: a dictionary key is decoded as the target key type decodes a
\* value.  A key that is not valid UTF-8 fails the decode into a map with
\* text keys, and a map with byte-array keys takes every key unchanged.
C19_KeysDecodeAsKeyType ==
    /\ (last.op = "from_bytes" /\ decoded.shape \in {TextKeyMap, TextKeyIntMap}
          /\ IsDict(data) /\ ~KeysUtf8(GrammarPairVals(data, 1))) => ShapeError
    /\ (IsFromBytes(ByteKeyMap) /\ IsDict(data)) =>
          /\ decoded.r.ok
          /\ Len(decoded.r.val.items) = Len(GrammarKeyStarts(data, 1))
          /\ \A i \in 1..Len(decoded.r.val.items) :
                decoded.r.val.items[i].items[1]
                    = BytesV(GrammarObject(data, GrammarKeyStarts(data, 1)[i]).span)

\* C19 witness: d1:<0xFF>i1ee decoded into a map with byte-array keys.
C19_Witness ==
    /\ data = <<"d">> \o NotUtf8 \o <<"i", "1", "e", "e">>
    /\ IsFromBytes(ByteKeyMap) /\ decoded.r.ok
    /\ decoded.r.val.items = <<Pair(BytesV(<<InvalidUtf8Byte>>), IntV(<<"1">>))>>

\* Where the value that starts at offset p ends when its tokens nest as the
\* tokenizer reads them (a dictionary being any pairs of values), or -1.
RECURSIVE TokenValueEnd(_, _), TokenItemsEnd(_, _), TokenPairsEnd(_, _)

TokenItemsAfter(d, v) == IF v = 0 - 1 THEN 0 - 1 ELSE TokenItemsEnd(d, v)

TokenPairsAfter(d, v) == IF v = 0 - 1 THEN 0 - 1 ELSE TokenPairsEnd(d, v)

TokenValueAfter(d, k) == IF k = 0 - 1 THEN 0 - 1 ELSE TokenValueEnd(d, k)

TokenValueEnd(d, p) ==
    CASE ByteAt(d, p) = "i" -> GrammarIntEnd(d, p)
      [] ByteAt(d, p) \in Digits -> GrammarBytesEnd(d, p)
      [] ByteAt(d, p) = "l" -> TokenItemsEnd(d, p + 1)
      [] ByteAt(d, p) = "d" -> TokenPairsEnd(d, p + 1)
      [] OTHER -> 0 - 1

TokenItemsEnd(d, p) ==
    IF ByteAt(d, p) = "e" THEN p + 1 ELSE TokenItemsAfter(d, TokenValueEnd(d, p))

TokenPairsEnd(d, p) ==
    IF ByteAt(d, p) = "e" THEN p + 1
    ELSE TokenPairsAfter(d, TokenValueAfter(d, TokenValueEnd(d, p)))

\* Every value of the pairs is an integer.
AllIntValues(pairs) == \A i \in 1..Len(pairs) : pairs[i].items[2].t = "Int"

\* C20: a from_bytes call in which a step fails returns an error and no
\* value.  An input whose tokens do not make up one whole value, a list with
\* an element the target does not take and a dictionary with a key or a
\* value the target does not take all give an error, whatever was decoded
\* before the failing step; a call that succeeds has read one whole value
\* (an enum target reads no End after a unit variant, so that an input cut
\* short there has no failing step: the whole value is stated for the other
\* targets).
C20_FirstErrorAborts ==
    last.op = "from_bytes" =>
        /\ decoded.r.ok => decoded.r.err = NoErr
        /\ (decoded.r.ok /\ decoded.shape.t # "Enum") =>
              decoded.r.ps.offset = TokenValueEnd(data, 0)
        /\ ~decoded.r.ok => decoded.r.val = NoVal /\ decoded.r.err # NoErr
        /\ (TokenValueEnd(data, 0) = 0 - 1 /\ decoded.shape.t # "Enum") => ~decoded.r.ok
        /\ (decoded.shape \in {SeqOfInts, PairOfInts} /\ IsList(data)
              /\ ~AllInts(data, GrammarItemStarts(data, 1))) => ~decoded.r.ok
        /\ (decoded.shape = TextKeyIntMap /\ IsDict(data)
              /\ ~(KeysUtf8(GrammarPairVals(data, 1)) /\ AllIntValues(GrammarPairVals(data, 1))))
              => ~decoded.r.ok

\* C20 witness: li1e1:ai1ee into a sequence of integers fails at the second
\* element, after the first was decoded and with the third one decodable.
C20_Witness ==
    /\ data = <<"l", "i", "1", "e", "1", ":", "a", "i", "1", "e", "e">>
    /\ IsFromBytes(SeqOfInts)
    /\ ShapeError

\* C21: from_bytes on an input whose first token is an End is an error for
\* every target type; no value is returned for the End.
C21_EndIsNoValue ==
    (last.op = "from_bytes" /\ ByteAt(data, 0) = "e") => ShapeError

\* C21 witness: from_bytes of "e" into the generic value failed.
C21_Witness ==
    /\ data = <<"e">>
    /\ IsFromBytes(AnyShape)
    /\ ~decoded.r.ok

\* The bytes left to read and the cursors left to drain, as one number that
\* every turn of a drain makes smaller.
DrainMeasure == 2 * (Len(data) - offset) + Len(stack)

\* The parser after the Drop of every cursor of stk, the innermost first.
RECURSIVE DropAll(_, _, _)
DropAll(d, stk, ps) ==
    IF stk = <<>> THEN ps
    ELSE DropAll(d, SubSeq(stk, 1, Len(stk) - 1), drop_cursor(d, stk[Len(stk)], ps))

\* C22, progress: every turn of a drain reads at least one byte or ends the
\* drain of a cursor, within the input.
C22_DrainProgress ==
    [][last'.op = "drain" => DrainMeasure' < DrainMeasure /\ offset' <= Len(data)]_vars

\* C22, recursion: a turn of the drain leaves the parser on its way to where
\* the Drop of the cursors puts it, nested cursors and failing pulls included.
C22_DrainIsDrop ==
    [][last'.op = "drain" =>
          DropAll(data, stack', PS(offset', peeked_token'))
              = DropAll(data, stack, PS(offset, peeked_token))]_vars

\* C22, termination: cursors that are open are all destroyed in the end.
C22_DrainTerminates == (stack # <<>>) ~> (stack = <<>>)

\* C22: the destruction of a List or Dict cursor completes on every input:
\* the drain makes progress at every turn, drains nested cursors by their own
\* Drop, stops at the first failing pull without handing the error on, and
\* terminates.
C22_DestructionCompletes ==
    /\ C22_DrainProgress
    /\ C22_DrainIsDrop
    /\ C22_DrainTerminates

\* C22 witness: lli1ee, whose outer list is never closed, is drained: the last
\* pull failed and no cursor is left.
C22_Witness ==
    /\ data = <<"l", "l", "i", "1", "e", "e">>
    /\ last.op = "drain" /\ ~last.ok /\ last.err # NoErr
    /\ stack = <<>>
    /\ offset = Len(data)

\* The cursors that are open are nested in one another: each one was
\* returned by a pull of the one before it, which has not finished.
C23_Nested ==
    \A i \in 1..(Len(stack) - 1) :
        /\ ~stack[i].finished
        /\ stack[i].pulls >= 1
        /\ stack[i].start_point < stack[i + 1].start_point

\* A step leaves every cursor that has a live child as it is, a pull is a
\* pull of the innermost cursor, the tokenizer moves only in a call on the
\* innermost cursor, and a cursor is innermost again only after the Drop or
\* the conversion of its child.
C23_Step ==
    /\ \A i \in 1..(Len(stack) - 1) : i <= Len(stack') /\ stack'[i] = stack[i]
    /\ IsPull(last'.op) =>
          /\ stack # <<>>
          /\ last'.start = Top.start_point /\ last'.ckind = Top.kind
          /\ last'.pulls = Top.pulls /\ last'.fin = Top.finished
    /\ (stack # <<>> /\ offset' # offset) =>
          /\ last'.op \in {"next_object", "next_pair", "drop", "try_from"}
          /\ last'.start = Top.start_point
    /\ Len(stack') < Len(stack) =>
          /\ last'.op \in {"drop", "try_from"}
          /\ Len(stack') = Len(stack) - 1
    /\ (last.ok /\ last.kind \in {"List", "Dict"} /\ IsPull(last'.op)) =>
          /\ last'.start = offset - 1
          /\ last'.pulls = 0

\* C23: while a cursor returned by a pull or by parse is alive, it alone
\* advances the tokenizer; its parent is pulled again only after it was
\* destroyed, so the open cursors form one chain, one per depth.
C23_OnlyTheInnermostCursorActs == []C23_Nested /\ [][C23_Step]_vars

\* C23 witness: three lists are open in one another and the innermost was
\* pulled.
C23_Witness ==
    /\ Len(stack) = 3
    /\ last.op = "next_object" /\ last.ok /\ last.kind = "Int"
    /\ last.start = stack[3].start_point

\* C24: a byte string of 20 n bytes decodes into the PieceList of n digests,
\* the k-th being its bytes 20 k to 20 k + 20; a serialised PieceList decodes
\* into itself; a byte string of another length is rejected.
C24_PieceList ==
    (last.op = "from_bytes" /\ decoded.shape = PieceListShape) =>
        /\ plain.some => decoded.r.ok /\ decoded.r.val = plain.value
        /\ (GrammarBytesEnd(data, 0) # 0 - 1 /\ Len(GrammarObject(data, 0).span) % 20 = 0) =>
              /\ decoded.r.ok
              /\ Len(decoded.r.val.items) * 20 = Len(GrammarObject(data, 0).span)
              /\ \A k \in 0..(Len(decoded.r.val.items) - 1) :
                    \A j \in 1..20 :
                        decoded.r.val.items[k + 1][j]
                            = GrammarObject(data, 0).span[20 * k + j]
        /\ (GrammarBytesEnd(data, 0) # 0 - 1 /\ Len(GrammarObject(data, 0).span) % 20 # 0) =>
              ShapeError
        /\ GrammarBytesEnd(data, 0) = 0 - 1 => ~decoded.r.ok

\* C24 witness: two digests that differ were serialised and decoded.
C24_Witness ==
    /\ last.op = "from_bytes" /\ decoded.shape = PieceListShape
    /\ plain.some /\ Len(plain.value.items) = 2
    /\ plain.value.items[1] # plain.value.items[2]
    /\ decoded.r.ok /\ decoded.r.val.items = plain.value.items
    /\ Len(data) = 43

\* C25: an enum decoded from a DictBegin token has, when the decode
\* succeeds, consumed the dict through its own End, whatever the payload of
\* the variant (none, a scalar, a tuple, a record): the tokenizer stands one
\* past the End that matches the DictBegin, with nothing peeked.
C25_EnumDictReadThroughItsEnd ==
    (last.op = "from_bytes" /\ decoded.shape.t = "Enum"
       /\ ByteAt(data, 0) = "d" /\ decoded.r.ok) =>
        /\ decoded.r.ps.offset = MatchingEnd(data, 0)
        /\ decoded.r.ps.peeked = None

\* The cursor the last call was made on, as it was before the call.
CalledCursor ==
    [kind |-> last.ckind, finished |-> last.fin, start_point |-> last.start,
     pulls |-> last.pulls]

\* The last call was a Drop whose consume_all returned an error, which the
\* Drop discarded (the cursor API peeks no token, so none was cached).
DrainFailed ==
    /\ last.op = "drop"
    /\ ~consume_all(data, CalledCursor, PS(last.pre, None)).ok

\* C26: after a Drop whose drain hit an error and discarded it, the next read
\* of the enclosing scope (a pull of the parent cursor, or parse) fails.
C26_SuppressedErrorReportedInParent ==
    [][(DrainFailed /\ last'.op \in {"parse", "next_object", "next_pair"})
          => ~last'.ok]_vars

\* The tokenizer has consumed the End that matches the opening token of the
\* cursor c.
EndConsumed(c) ==
    /\ MatchingEnd(data, c.start_point) # 0 - 1
    /\ offset >= MatchingEnd(data, c.start_point)

\* C27: on every input the innermost cursor is finished exactly when its
\* matching End has been consumed.
C27_FinishedIffEndConsumed ==
    (Live /\ stack # <<>>) => (Top.finished <=> EndConsumed(Top))

\* C28: a typed decode that succeeds has consumed exactly one whole value:
\* the tokenizer stands one past the last byte of the value that started at
\* the call, and no token is left peeked.
C28_StepConsumesOneValue ==
    (last.op = "from_bytes" /\ decoded.r.ok) =>
        /\ decoded.r.ps.offset = TokenValueEnd(data, 0)
        /\ decoded.r.ps.peeked = None

\* The first token of d when it is an Integer, a List or an End, by the
\* grammar; None when d starts with another token or with none.
FirstOtherToken(d) ==
    CASE ByteAt(d, 0) = "l" -> Token("List", <<>>)
      [] ByteAt(d, 0) = "e" -> Token("End", <<>>)
      [] GrammarIntEnd(d, 0) # 0 - 1 -> Token("Num", GrammarObject(d, 0).span)
      [] OTHER -> None

\* C29: an enum decode that meets an Integer, a List or an End token fails
\* with a structural error that names the offset of the token, and the token
\* is not consumed: it stays peeked, and the next read returns it.
C29_EnumRejectsWithoutConsuming ==
    (last.op = "from_bytes" /\ decoded.shape.t = "Enum" /\ FirstOtherToken(data) # None) =>
        /\ ShapeError
        /\ decoded.r.err = SerdeCustom(0)
        /\ decoded.r.ps.peeked = FirstOtherToken(data)
        /\ next_token(data, decoded.r.ps).ok
        /\ next_token(data, decoded.r.ps).tok = FirstOtherToken(data)

\* C29 witness: i1e in enum position is rejected and still the next token.
C29_Witness ==
    /\ data = <<"i", "1", "e">>
    /\ last.op = "from_bytes" /\ decoded.shape = Enum
    /\ ~decoded.r.ok
    /\ decoded.r.ps.peeked = Token("Num", <<"1">>)

\* The number of bytes of the token tok on the wire.
TokenLen(tok) ==
    CASE tok.kind = "Num"    -> Len(tok.span) + 2
      [] tok.kind = "String" -> Len(FormatDec(Len(tok.span))) + 1 + Len(tok.span)
      [] OTHER               -> 1

\* The last call was a peek_token that returned a token.
Peeked == last.op = "peek_token" /\ last.ok

\* The call after a peek_token that returned a token: another peek returns
\* the same token and changes nothing; a next_token returns the same token,
\* empties the cache and leaves the offset where a next_token from the start
\* of that token, with nothing peeked, leaves it.
C30_Step ==
    /\ (Peeked /\ last'.op = "peek_token") =>
          /\ last'.ok /\ last'.kind = last.kind /\ last'.span = last.span
          /\ offset' = offset /\ peeked_token' = peeked_token
    /\ (Peeked /\ last'.op = "next_token") =>
          /\ last'.ok /\ last'.kind = last.kind /\ last'.span = last.span
          /\ peeked_token' = None
          /\ next_token(data, PS(offset - TokenLen(peeked_token), None)).ok
          /\ next_token(data, PS(offset - TokenLen(peeked_token), None)).tok
                = Token(last'.kind, last'.span)
          /\ next_token(data, PS(offset - TokenLen(peeked_token), None)).ps
                = PS(offset', peeked_token')

\* C30: peek_token returns the next token without consuming it.
C30_PeekDoesNotConsume ==
    /\ [](Peeked => peeked_token = Token(last.kind, last.span))
    /\ [][C30_Step]_vars

\* C30 witness: i-5e was peeked and then read by next_token.
C30_Witness ==
    /\ data = <<"i", "-", "5", "e">>
    /\ last.op = "next_token" /\ last.ok /\ last.hit
    /\ last.pop = "peek_token"
    /\ last.kind = "Num" /\ last.span = <<"-", "5">>
    /\ offset = 4 /\ peeked_token = None

(***************************************************************************)
(* C31..C37.                                                               *)
(***************************************************************************)
TokenKinds == {"End", "List", "Dict", "Num", "String"}

\* The tokenizer state (off, pk) is one of a buffer of n bytes: the offset
\* lies in the buffer or at its end and the cache holds nothing or one token.
InBuffer(off, pk, n) ==
    /\ off \in 0..n
    /\ pk = None \/ pk.kind \in TokenKinds

\* C31 (state part): after every operation, successful or failing, the
\* offset of the parser satisfies 0 <= offset <= Len(data) and peeked_token
\* is empty or one token; the parser a from_bytes ran on ends the same way.
C31_OffsetInBuffer ==
    /\ InBuffer(offset, peeked_token, Len(data))
    /\ last.op = "from_bytes" =>
          InBuffer(decoded.r.ps.offset, decoded.r.ps.peeked, Len(last.slice))

\* C31: across every sequence of cursor, tokenizer and adapter operations
\* the read offset never decreases from one operation to the next, stays
\* within 0..Len(data), and at most one look-ahead token is cached.
C31_OffsetMonotoneAndBounded ==
    /\ []C31_OffsetInBuffer
    /\ [][offset' >= offset]_vars

\* C31 witness: a pull failed after the offset had moved, and the offset is
\* at the end of the input.
C31_Witness ==
    /\ IsPull(last.op) /\ ~last.ok
    /\ offset > last.pre
    /\ offset = Len(data)

\* The byte a token scan starts on, "EOF" at the end of the input.
ControlByte == ByteAt(data, last.pre)

\* The last scan gave the token of kind `kind` and moved one byte forward.
OneByteToken(kind) ==
    /\ last.ok /\ last.kind = kind /\ last.span = <<>>
    /\ offset = last.pre + 1

\* The last scan gave no token and a decode-grammar error.
NoToken == ~last.ok /\ last.kind = "None" /\ last.err.kind = "BencodeDecode"

\* C32: a token scan dispatches on the one byte at the offset: 'e' gives End,
\* 'l' gives List, 'd' gives Dict, each one byte long; 'i' starts an integer
\* and a digit a byte string (the token is of that kind, or the scan fails
\* with a decode-grammar error); every other byte, and the end of the input,
\* gives a decode-grammar error and no token.
C32_DispatchOnControlByte ==
    IsScan =>
        /\ ControlByte = "e" => OneByteToken("End")
        /\ ControlByte = "l" => OneByteToken("List")
        /\ ControlByte = "d" => OneByteToken("Dict")
        /\ ControlByte = "i" => (IF last.ok THEN last.kind = "Num" ELSE NoToken)
        /\ ControlByte \in Digits => (IF last.ok THEN last.kind = "String" ELSE NoToken)
        /\ ControlByte \notin {"e", "l", "d", "i"} \cup Digits => NoToken

\* C32 witness: after a first token, a scan that starts on a byte that is no
\* control byte gave an error and no token.
C32_Witness ==
    /\ IsScan /\ last.pre > 0
    /\ ControlByte \in {"-", ":", "a"}
    /\ NoToken

\* The offset of the ':' that ends the length prefix starting at p, or -1
\* when the bytes from p are not 0 or [1-9][0-9]* followed by ':'.
LengthEnd(d, p) ==
    IF GrammarNumberEnd(d, p) # 0 - 1 /\ ByteAt(d, GrammarNumberEnd(d, p)) = ":"
    THEN GrammarNumberEnd(d, p) ELSE 0 - 1

\* The digits of the length prefix that starts at p.
Declared(d, p) == Slice(d, p, LengthEnd(d, p))

\* The length len (digits without leading zeros) is above usize::MAX.
AboveMachineWord(len) ==
    \/ Len(len) > Len(UsizeMaxDigits)
    \/ Len(len) = Len(UsizeMaxDigits) /\ ~DigitsLeq(len, UsizeMaxDigits)

\* The length len is above n, a number of bytes below 10^9.
Exceeds(len, n) == Len(len) > 9 \/ DecVal(len) > n

\* C33: the scan of a byte string whose declared length exceeds the bytes
\* that remain after the ':', or is above usize::MAX, fails with a
\* decode-grammar error and gives no token; a String token that is returned
\* is never shorter than declared and lies inside the buffer.
C33_DeclaredLengthIsChecked ==
    (IsScan /\ LengthEnd(data, last.pre) # 0 - 1) =>
        /\ ( \/ AboveMachineWord(Declared(data, last.pre))
             \/ Exceeds(Declared(data, last.pre), Len(data) - LengthEnd(data, last.pre) - 1) )
              => NoToken
        /\ last.ok =>
              /\ last.kind = "String"
              /\ ~Exceeds(Declared(data, last.pre), Len(last.span))
              /\ offset <= Len(data)
              /\ last.span = Slice(data, LengthEnd(data, last.pre) + 1, offset)

\* C33 witness: the length usize::MAX + 1 is refused at the offset of its
\* first digit.
C33_Witness ==
    /\ data = SubSeq(UsizeMaxDigits, 1, 19) \o <<"6", ":", "a">>
    /\ IsScan /\ last.pre = 0
    /\ NoToken /\ last.err = BencodeDecode(0)

\* The offset r, where a number ended, if the byte there is not the
\* terminator and is not the end of the input; -1 otherwise.
IllegalAfterNumber(d, r, term) ==
    IF ByteAt(d, r) \notin {term, "EOF"} THEN r ELSE 0 - 1

\* The offset of the first byte that the grammar of take_int does not allow
\* in the number that starts at q and is to end with term, or -1 when the
\* scan meets the terminator or the end of the input first.
FirstIllegal(d, q, term) ==
    CASE ByteAt(d, q) = "EOF" -> 0 - 1
      [] ByteAt(d, q) = "0" -> IllegalAfterNumber(d, q + 1, term)
      [] ByteAt(d, q) \in NonZeroDigits -> IllegalAfterNumber(d, DigitRunEnd(d, q), term)
      [] ByteAt(d, q) = "-" ->
            IF ByteAt(d, q + 1) \in NonZeroDigits
            THEN IllegalAfterNumber(d, DigitRunEnd(d, q + 1), term)
            ELSE IF ByteAt(d, q + 1) = "EOF" THEN 0 - 1 ELSE q + 1
      [] OTHER -> q

\* The offset of the unexpected byte of the token that starts at p: an
\* unknown control byte at p itself, or the first illegal byte of an integer
\* body or of a length prefix; -1 when there is none.
UnexpectedAt(d, p) ==
    CASE ByteAt(d, p) \in {"e", "l", "d", "EOF"} -> 0 - 1
      [] ByteAt(d, p) = "i" -> FirstIllegal(d, p + 1, "e")
      [] ByteAt(d, p) \in Digits -> FirstIllegal(d, p, ":")
      [] OTHER -> p

\* C34: a decode-grammar error raised for an unexpected byte carries the
\* offset of that byte: p for an unknown control byte at p, and the index of
\* the illegal character inside an integer body or a length prefix.
C34_ErrorOffsetIsTheUnexpectedByte ==
    (IsScan /\ UnexpectedAt(data, last.pre) # 0 - 1) =>
        /\ NoToken
        /\ last.err = BencodeDecode(UnexpectedAt(data, last.pre))

\* The well-formed list d starts with two integers.
StartsWithTwoInts(d) ==
    /\ Len(GrammarItemStarts(d, 1)) >= 2
    /\ AllInts(d, SubSeq(GrammarItemStarts(d, 1), 1, 2))

\* C35: a tuple of two integers decoded from a list that starts with two
\* integers and holds more elements fails: the surplus element is not
\* skipped, the expect_end after the visitor meets it and reports a
\* shape-mismatch error at its offset.  From the list of exactly two
\* integers the decode gives the pair and ends just past the End of the list.
C35_SurplusElementsAreAnError ==
    (IsFromBytes(PairOfInts) /\ IsList(data) /\ StartsWithTwoInts(data)) =>
        IF Len(GrammarItemStarts(data, 1)) > 2
        THEN /\ ShapeError
             /\ decoded.r.err = SerdeCustom(GrammarItemStarts(data, 1)[3])
        ELSE /\ decoded.r.ok
             /\ decoded.r.val = TupleV(GrammarItemVals(data, 1))
             /\ Len(decoded.r.val.items) = 2
             /\ decoded.r.ps = PS(GrammarValueEnd(data, 0), None)

\* C35 witness: li1ei0ei-1ee decoded into a pair fails at the third element.
C35_Witness ==
    /\ data = <<"l", "i", "1", "e", "i", "0", "e", "i", "-", "1", "e", "e">>
    /\ IsFromBytes(PairOfInts)
    /\ ~decoded.r.ok /\ decoded.r.err = SerdeCustom(7)

\* Two decodes agree: the same outcome, value and parser state, and the same
\* kind of error (the offset an error names is the one saved by the method
\* that raised it, and the generic decode has peeked by then).
SameDecode(a, b) ==
    /\ a.ok = b.ok /\ a.val = b.val /\ a.ps = b.ps
    /\ a.err.kind = b.err.kind

\* C36 (dispatch): from_bytes into the generic value does what the method of
\* the first token's kind does on the untouched input: deserialize_map for a
\* Dict, deserialize_seq for a List, deserialize_i64 for an Integer,
\* deserialize_bytes for a ByteString; an End is an error at its offset and
\* stays peeked.
C36_Dispatch ==
    IsFromBytes(AnyShape) =>
        /\ ByteAt(data, 0) = "d" =>
              SameDecode(decoded.r, deserialize_map(AnyShape, data, PS(0, None)))
        /\ ByteAt(data, 0) = "l" =>
              SameDecode(decoded.r, deserialize_seq(AnyShape, data, PS(0, None)))
        /\ GrammarIntEnd(data, 0) # 0 - 1 =>
              SameDecode(decoded.r, deserialize_integer("i64", data, PS(0, None)))
        /\ GrammarBytesEnd(data, 0) # 0 - 1 =>
              SameDecode(decoded.r, deserialize_bytes(data, PS(0, None)))
        /\ ByteAt(data, 0) = "e" =>
              /\ ~decoded.r.ok /\ decoded.r.err = SerdeCustom(0)
              /\ decoded.r.ps = PS(1, Token("End", <<>>))

\* C36 (range): the generic decode of an encoded integer succeeds exactly
\* when the integer lies in the range of i64; an integer above it that lies
\* in the range of u64 fails there with a conversion error and decodes into
\* a u64 target.
C36_SignedRange ==
    (IsFromBytes(AnyShape) /\ plain.some) =>
        IF InRange("i64", LitIndex(plain.value.s))
        THEN decoded.r.ok /\ decoded.r.val = plain.value
        ELSE /\ ~decoded.r.ok /\ decoded.r.val = NoVal
             /\ decoded.r.err.kind = "SerdeCustom"
             /\ InRange("u64", LitIndex(plain.value.s)) =>
                   /\ from_bytes(IntShape("u64"), data).ok
                   /\ from_bytes(IntShape("u64"), data).val = plain.value

\* C36: generic decoding dispatches on the kind of the next token without
\* consuming it, an Integer going to the signed 64-bit method.
C36_GenericDecoding == C36_Dispatch /\ C36_SignedRange

\* C36 witness: i18446744073709551615e (2^64 - 1) failed in generic decoding.
C36_Witness ==
    /\ data = <<"i">> \o UsizeMaxDigits \o <<"e">>
    /\ plain = Plain(IntV(UsizeMaxDigits))
    /\ IsFromBytes(AnyShape)
    /\ ~decoded.r.ok /\ decoded.r.err.kind = "SerdeCustom"

\* The bytes of the first well-formed value of d.
FirstValue(d) == Slice(d, 0, GrammarValueEnd(d, 0))

\* C37: from_bytes decodes the first complete value of its input and checks
\* nothing after it: when the input starts with a well-formed value v that
\* decodes into the target, from_bytes of the whole input gives what
\* from_bytes(v) gives, whatever follows v, and the parser ends at or before
\* the end of v with no byte after v read.
C37_TrailingBytesAreIgnored ==
    (/\ last.op = "from_bytes"
     /\ GrammarValueEnd(data, 0) # 0 - 1
     /\ from_bytes(decoded.shape, FirstValue(data)).ok) =>
        /\ decoded.r = from_bytes(decoded.shape, FirstValue(data))
        /\ decoded.r.ps.offset <= GrammarValueEnd(data, 0)

\* C37 witness: li1ei0ee followed by a byte that starts no token decoded into
\* the pair (1, 0), the parser left before that byte.
C37_Witness ==
    /\ data = <<"l", "i", "1", "e", "i", "0", "e", "e", "a">>
    /\ IsFromBytes(PairOfInts)
    /\ decoded.r.ok /\ decoded.r.val = TupleV(<<IntV(<<"1">>), IntV(<<"0">>)>>)
    /\ decoded.r.ps = PS(8, None)

====
